---- MODULE Spec2Model ----
(***************************************************************************)
(* A model of cobrak's aggregation and classification engine:              *)
(*   pkg/capacity  - pressure classification of nodes, namespaces and      *)
(*                   the cluster (pressure.go) and the capacity summary    *)
(*                   (analyzer.go);                                        *)
(*   pkg/resources - the resource inventory (BuildInventory), the diff of  *)
(*                   usage against requests (BuildDiff) and the pod        *)
(*                   summaries (BuildPodSummaries);                        *)
(*   pkg/config    - the settings file, saving and loading it, and the     *)
(*                   validation of thresholds;                             *)
(*   cmd, pkg/output - the diff command and its table, and the commands    *)
(*                   `config set` and `config reset`.                      *)
(*                                                                         *)
(* Quantities are exact integers (milli-CPU, bytes).  A float64            *)
(* utilisation is modelled as the exact rational [n, d] (n/d percent) and  *)
(* a threshold as an integer number of tenths of a percent, so that        *)
(* "utilisation >= threshold" is decided by cross-multiplication.          *)
(* Names (namespaces, pods, containers, nodes) are positive integers       *)
(* ordered as the strings they stand for; 0 is the empty string.           *)
(***************************************************************************)
EXTENDS Integers, Sequences, FiniteSets, TLC

VARIABLES
    nodes,          \* nodes.Items as listed by the cluster client
    pods,           \* pods.Items as listed by the cluster client
    limitRanges,    \* limitRanges.Items as listed by the cluster client
    resourceQuotas, \* resourceQuotas.Items as listed by the cluster client
    pressure,       \* what CalculatePressureWithThresholds returned
    inventory,      \* what BuildInventory returned
    classified,     \* the last call of a level-from-ratio function
    usages,         \* the container usages of the metrics API, as listed
    diff,           \* what the diff command computed and printed
    settingsFile,   \* the content of ~/.cobrak/settings.toml
    loaded,         \* what LoadSettings returned
    validated,      \* the last call of PressureThresholds.Validate
    runs,           \* the analysis runs in flight, each with its locals
    failing,        \* the kinds of object the cluster client fails to list
    podSummaries,   \* what BuildPodSummaries or BuildPodSummariesWithUsage returned
    capacity,       \* what AnalyzeSummary returned
    command         \* the last `config` command or SaveSettings call and its outcome

vars == <<nodes, pods, limitRanges, resourceQuotas, pressure, inventory, classified,
         usages, diff, settingsFile, loaded, validated, runs, failing,
         podSummaries, capacity, command>>

(***************************************************************************)
(* Bounds of the model.                                                    *)
(***************************************************************************)
MaxPods == 2
MaxPolicies == 1

(***************************************************************************)
(* Resource lists (corev1.ResourceList): a map from a subset of            *)
(* {"cpu", "memory"} to a quantity.                                        *)
(***************************************************************************)
NoResources == [r \in {} |-> 0]

CPUOnly(c) == [r \in {"cpu"} |-> c]

MemoryOnly(m) == [r \in {"memory"} |-> m]

CPUAndMemory(c, m) == [r \in {"cpu", "memory"} |-> IF r = "cpu" THEN c ELSE m]

\* ResourceList.Cpu() / .Memory(): the zero quantity when the key is missing.
QuantityOf(list, r) == IF r \in DOMAIN list THEN list[r] ELSE 0

(***************************************************************************)
(* Pressure levels and thresholds (pkg/capacity/pressure.go).              *)
(***************************************************************************)
PressureLow == "LOW"

PressureMedium == "MEDIUM"

PressureHigh == "HIGH"

PressureSaturated == "SATURATED"

\* The zero value of PressureLevel: a level that was never assigned.
PressureUnset == ""

PressureLevels == {PressureLow, PressureMedium, PressureHigh, PressureSaturated}

\* Thresholds are held in tenths of a percent.
DefaultPressureThresholds == [Low |-> 500, Medium |-> 750, High |-> 900, Saturated |-> 1000]

\* A float64 utilisation as an exact rational of percents.
ZeroUtilization == [n |-> 0, d |-> 1]

Percent(part, whole) == [n |-> part * 100, d |-> whole]

\* utilization >= threshold, the threshold in tenths of a percent
AtLeast(u, t) == u.n * 10 >= t * u.d

\* getPressureLevel comparing with > where the code compares with >=
getPressureLevelStrict(utilization, thresholds) ==
    IF utilization.n * 10 > thresholds.Saturated * utilization.d THEN PressureSaturated
    ELSE IF utilization.n * 10 > thresholds.High * utilization.d THEN PressureHigh
    ELSE IF utilization.n * 10 > thresholds.Medium * utilization.d THEN PressureMedium
    ELSE PressureLow

\* getPressureLevel whose fourth case returns MEDIUM
getPressureLevelMediumFromLow(utilization, thresholds) ==
    IF AtLeast(utilization, thresholds.Saturated) THEN PressureSaturated
    ELSE IF AtLeast(utilization, thresholds.High) THEN PressureHigh
    ELSE IF AtLeast(utilization, thresholds.Medium) THEN PressureMedium
    ELSE IF AtLeast(utilization, thresholds.Low) THEN PressureMedium
    ELSE PressureLow

getPressureLevel(utilization, thresholds) ==
    IF AtLeast(utilization, thresholds.Saturated) THEN PressureSaturated
    ELSE IF AtLeast(utilization, thresholds.High) THEN PressureHigh
    ELSE IF AtLeast(utilization, thresholds.Medium) THEN PressureMedium
    ELSE IF AtLeast(utilization, thresholds.Low) THEN PressureLow
    ELSE PressureLow

\* the earlier form of the same function, a chain of if statements
calculatePressureLevelWithThresholds(utilization, thresholds) ==
    IF AtLeast(utilization, thresholds.Saturated) THEN PressureSaturated
    ELSE IF AtLeast(utilization, thresholds.High) THEN PressureHigh
    ELSE IF AtLeast(utilization, thresholds.Medium) THEN PressureMedium
    ELSE IF AtLeast(utilization, thresholds.Low) THEN PressureLow
    ELSE PressureLow

(***************************************************************************)
(* The thresholds of the configuration (pkg/config).  Their fields are     *)
(* float64 values a settings file or a command line can set to anything,   *)
(* so a value here is a finite number of tenths of a percent or NaN; every *)
(* ordered comparison with NaN is false.                                   *)
(***************************************************************************)
Finite(v) == [nan |-> FALSE, tenths |-> v]

NaN == [nan |-> TRUE, tenths |-> 0]

\* a < b on float64
FloatLess(a, b) == ~a.nan /\ ~b.nan /\ a.tenths < b.tenths

\* a > b on float64
FloatGreater(a, b) == ~a.nan /\ ~b.nan /\ a.tenths > b.tenths

\* a >= b on float64
FloatAtLeast(a, b) == ~a.nan /\ ~b.nan /\ a.tenths >= b.tenths

\* the thresholds of an analysis as thresholds of the configuration, to state
\* their validity
configThresholds(t) ==
    [Low |-> Finite(t.Low), Medium |-> Finite(t.Medium),
     High |-> Finite(t.High), Saturated |-> Finite(t.Saturated)]

\* Validate with the bounds 0 and 100 themselves refused
ValidateExclusiveBounds(pt) ==
    IF ~FloatGreater(pt.Low, Finite(0)) \/ ~FloatLess(pt.Low, Finite(1000))
    THEN "low must be between 0 and 100"
    ELSE IF ~FloatGreater(pt.Medium, Finite(0)) \/ ~FloatLess(pt.Medium, Finite(1000))
    THEN "medium must be between 0 and 100"
    ELSE IF ~FloatGreater(pt.High, Finite(0)) \/ ~FloatLess(pt.High, Finite(1000))
    THEN "high must be between 0 and 100"
    ELSE IF ~FloatGreater(pt.Saturated, Finite(0)) \/ ~FloatLess(pt.Saturated, Finite(1000))
    THEN "saturated must be between 0 and 100"
    ELSE IF FloatAtLeast(pt.Low, pt.Medium) THEN "low must be less than medium"
    ELSE IF FloatAtLeast(pt.Medium, pt.High) THEN "medium must be less than high"
    ELSE IF FloatAtLeast(pt.High, pt.Saturated) THEN "high must be less than saturated"
    ELSE ""

\* PressureThresholds.Validate of the configuration: the first failing check,
\* "" for nil
Validate(pt) ==
    IF FloatLess(pt.Low, Finite(0)) \/ FloatGreater(pt.Low, Finite(1000))
    THEN "low must be between 0 and 100"
    ELSE IF FloatLess(pt.Medium, Finite(0)) \/ FloatGreater(pt.Medium, Finite(1000))
    THEN "medium must be between 0 and 100"
    ELSE IF FloatLess(pt.High, Finite(0)) \/ FloatGreater(pt.High, Finite(1000))
    THEN "high must be between 0 and 100"
    ELSE IF FloatLess(pt.Saturated, Finite(0)) \/ FloatGreater(pt.Saturated, Finite(1000))
    THEN "saturated must be between 0 and 100"
    ELSE IF FloatAtLeast(pt.Low, pt.Medium) THEN "low must be less than medium"
    ELSE IF FloatAtLeast(pt.Medium, pt.High) THEN "medium must be less than high"
    ELSE IF FloatAtLeast(pt.High, pt.Saturated) THEN "high must be less than saturated"
    ELSE ""

\* pressureOrder[l]: a Go map lookup, 0 for a key the map does not hold.
pressureOrder(l) ==
    CASE l = PressureLow -> 0
      [] l = PressureMedium -> 1
      [] l = PressureHigh -> 2
      [] l = PressureSaturated -> 3
      [] OTHER -> 0

combinePressureLevels(a, b) == IF pressureOrder(a) >= pressureOrder(b) THEN a ELSE b

(***************************************************************************)
(* Summing the requests of containers and pods.                            *)
(***************************************************************************)
RECURSIVE SumContainerRequests(_, _)
\* the loop over pod.Spec.Containers: a present request is added, an absent
\* one adds nothing
SumContainerRequests(containers, r) ==
    IF containers = <<>> THEN 0
    ELSE (IF r \in DOMAIN Head(containers).Requests THEN Head(containers).Requests[r] ELSE 0)
         + SumContainerRequests(Tail(containers), r)

\* addPodResourcesForNode: only pod.Spec.Containers are visited
addPodResourcesForNode(pod, r) == SumContainerRequests(pod.Containers, r)

RECURSIVE SumPodRequests(_, _)
SumPodRequests(podList, r) ==
    IF podList = <<>> THEN 0
    ELSE addPodResourcesForNode(Head(podList), r) + SumPodRequests(Tail(podList), r)

\* resourcePressure without its guard's effect on the level: a resource
\* without allocatable is classified at utilisation 0
resourcePressureAlwaysClassified(request, allocatable, thresholds) ==
    IF allocatable > 0
    THEN [Utilization |-> Percent(request, allocatable),
          Pressure |-> getPressureLevel(Percent(request, allocatable), thresholds)]
    ELSE [Utilization |-> ZeroUtilization,
          Pressure |-> getPressureLevel(ZeroUtilization, thresholds)]

\* the guarded block of computeNodePressure for one resource: utilisation
\* and level are assigned only when the node has allocatable of it
resourcePressure(request, allocatable, thresholds) ==
    IF allocatable > 0
    THEN [Utilization |-> Percent(request, allocatable),
          Pressure |-> getPressureLevel(Percent(request, allocatable), thresholds)]
    ELSE [Utilization |-> ZeroUtilization, Pressure |-> PressureUnset]

computeNodePressure(node, podList, thresholds) ==
    LET cpuAllocatable == QuantityOf(node.Allocatable, "cpu")
        memAllocatable == QuantityOf(node.Allocatable, "memory")
        OnNode(p) == p.NodeName = node.Name
        nodeCPURequest == SumPodRequests(SelectSeq(podList, OnNode), "cpu")
        nodeMemRequest == SumPodRequests(SelectSeq(podList, OnNode), "memory")
        cpu == resourcePressure(nodeCPURequest, cpuAllocatable, thresholds)
        mem == resourcePressure(nodeMemRequest, memAllocatable, thresholds)
    IN  [NodeName |-> node.Name,
         CPUUtilization |-> cpu.Utilization,
         CPUPressure |-> cpu.Pressure,
         MemUtilization |-> mem.Utilization,
         MemPressure |-> mem.Pressure]

\* calculateNodePressures: one NodePressure per node, in the order of the list
calculateNodePressures(nodeList, podList, thresholds) ==
    [i \in 1..Len(nodeList) |-> computeNodePressure(nodeList[i], podList, thresholds)]

RECURSIVE SumAllocatable(_, _)
SumAllocatable(nodeList, r) ==
    IF nodeList = <<>> THEN 0
    ELSE QuantityOf(Head(nodeList).Allocatable, r) + SumAllocatable(Tail(nodeList), r)

getTotalAllocatable(nodeList) ==
    [CPU |-> SumAllocatable(nodeList, "cpu"), Memory |-> SumAllocatable(nodeList, "memory")]

getTotalRequested(podList) ==
    [CPU |-> SumPodRequests(podList, "cpu"), Memory |-> SumPodRequests(podList, "memory")]

RECURSIVE findMaxFrom(_, _, _, _)
findMaxFrom(nodePressures, i, maxCPU, maxMem) ==
    IF i > Len(nodePressures) THEN <<maxCPU, maxMem>>
    ELSE findMaxFrom(nodePressures, i + 1,
                     combinePressureLevels(nodePressures[i].CPUPressure, maxCPU),
                     combinePressureLevels(nodePressures[i].MemPressure, maxMem))

\* the worst CPU and memory level over the node pressures, <<maxCPU, maxMem>>
findMaxNodePressures(nodePressures) ==
    findMaxFrom(nodePressures, 1, PressureUnset, PressureUnset)

(***************************************************************************)
(* Namespace pressures.                                                    *)
(***************************************************************************)
\* fmt.Sprintf("%.0f", u): the nearest integer, a tie going to the even one
RoundToInteger(u) ==
    LET q == u.n \div u.d
        r == u.n % u.d
    IN  IF 2 * r > u.d THEN q + 1
        ELSE IF 2 * r = u.d THEN q + (q % 2)
        ELSE q

NoStatus == [label |-> "", percent |-> 0]

\* "CPU 93%" is [label |-> "CPU", percent |-> 93]
StatusText(label, u) == [label |-> label, percent |-> RoundToInteger(u)]

\* aggregateNamespaceResources, then the body of the loop of
\* calculateNamespacePressures for one namespace
namespacePressure(ns, podList, totalAllocatable, thresholds) ==
    LET InNamespace(p) == p.Namespace = ns
        cpuSum == SumPodRequests(SelectSeq(podList, InNamespace), "cpu")
        memSum == SumPodRequests(SelectSeq(podList, InNamespace), "memory")
        cpuPercent == IF totalAllocatable.CPU > 0
                      THEN Percent(cpuSum, totalAllocatable.CPU)
                      ELSE [n |-> cpuSum, d |-> 1]
        memPercent == IF totalAllocatable.Memory > 0
                      THEN Percent(memSum, totalAllocatable.Memory)
                      ELSE [n |-> memSum, d |-> 1]
    IN  [Namespace |-> ns,
         CPUPercent |-> cpuPercent,
         MemPercent |-> memPercent,
         CPUStatus |-> IF AtLeast(cpuPercent, thresholds.High)
                       THEN StatusText("CPU", cpuPercent) ELSE NoStatus,
         MemStatus |-> IF AtLeast(memPercent, thresholds.High)
                       THEN StatusText("Memory", memPercent) ELSE NoStatus]

\* the keys of nsMap
NamespacesOf(podList) == {podList[i].Namespace : i \in 1..Len(podList)}

\* the orders in which a range over a Go map may visit the keys S
MapIterationOrders(S) ==
    {o \in [1..Cardinality(S) -> S] : \A i, j \in 1..Cardinality(S) : i # j => o[i] # o[j]}

\* calculateNamespacePressures dividing by the allocatable of the first node
calculateNamespacePressuresOfFirstNode(nodeList, podList, thresholds, order) ==
    [i \in 1..Len(order) |->
        namespacePressure(order[i], podList,
                          getTotalAllocatable(IF nodeList = <<>> THEN <<>>
                                              ELSE <<Head(nodeList)>>), thresholds)]

calculateNamespacePressures(nodeList, podList, thresholds, order) ==
    [i \in 1..Len(order) |->
        namespacePressure(order[i], podList, getTotalAllocatable(nodeList), thresholds)]

(***************************************************************************)
(* Cluster pressure and the entry point.                                   *)
(***************************************************************************)
NoPressure ==
    [status |-> "none", err |-> "", thresholds |-> DefaultPressureThresholds,
     Overall |-> PressureUnset, CPUUtilization |-> ZeroUtilization,
     MemUtilization |-> ZeroUtilization, NodePressures |-> <<>>, NamespacePressures |-> <<>>]

\* clusterOverall that forgets the memory levels
clusterOverallCPUOnly(nodePressures) == findMaxNodePressures(nodePressures)[1]

\* calculateClusterPressure: Overall from the node pressures
clusterOverall(nodePressures) ==
    LET max == findMaxNodePressures(nodePressures)
    IN  combinePressureLevels(max[1], max[2])

\* calculateClusterPressure: the cluster utilisation of one resource
clusterUtilization(requested, allocatable) ==
    IF allocatable > 0 THEN Percent(requested, allocatable) ELSE ZeroUtilization

\* what CalculatePressureWithThresholds returns when both lists were fetched
pressureResult(nodeList, podList, thresholds, order) ==
    LET nodePressures == calculateNodePressures(nodeList, podList, thresholds)
        totalAllocatable == getTotalAllocatable(nodeList)
        totalRequested == getTotalRequested(podList)
    IN  [status |-> "ok", err |-> "", thresholds |-> thresholds,
         Overall |-> clusterOverall(nodePressures),
         CPUUtilization |-> clusterUtilization(totalRequested.CPU, totalAllocatable.CPU),
         MemUtilization |-> clusterUtilization(totalRequested.Memory, totalAllocatable.Memory),
         NodePressures |-> nodePressures,
         NamespacePressures |-> calculateNamespacePressures(nodeList, podList, thresholds, order)]

\* the error of fetchClusterResources swallowed: a result from empty lists
pressureErrorSwallowed(failure) ==
    pressureResult(<<>>, <<>>, DefaultPressureThresholds, <<>>)

\* what it returns when fetchClusterResources fails: nil and the error
pressureError(failure) == [NoPressure EXCEPT !.status = "error", !.err = failure]

(***************************************************************************)
(* The inputs the model draws from.                                        *)
(***************************************************************************)
Container(name, requests, limits) == [Name |-> name, Requests |-> requests, Limits |-> limits]

NodeNames == {1, 2}

Namespaces == {1, 2}

\* a node without allocatable, with zero CPU, without memory, and a full one
AllocatableChoices == {NoResources, CPUAndMemory(0, 3), CPUOnly(3), CPUAndMemory(3, 3)}

NodeChoices == [Name : NodeNames, Allocatable : AllocatableChoices]

\* a pod without requests, a pod of one container with both requests, and a
\* pod of an init container and two containers with one request each
PodShapes ==
    { [InitContainers |-> <<>>, Containers |-> <<Container(1, NoResources, NoResources)>>],
      [InitContainers |-> <<>>, Containers |-> <<Container(1, CPUAndMemory(1, 2), NoResources)>>],
      [InitContainers |-> <<Container(1, CPUAndMemory(3, 3), NoResources)>>,
       Containers |-> <<Container(2, CPUOnly(2), NoResources), Container(3, MemoryOnly(1), NoResources)>>] }

\* NodeName 0: a pod that is not scheduled
PodChoices ==
    { [Namespace |-> ns, Name |-> 1, NodeName |-> n,
       InitContainers |-> sh.InitContainers, Containers |-> sh.Containers] :
        ns \in Namespaces, n \in {0} \cup NodeNames, sh \in PodShapes }

\* the default thresholds, custom ones, and ones with medium = high
CustomPressureThresholds == [Low |-> 100, Medium |-> 300, High |-> 600, Saturated |-> 900]

UnorderedPressureThresholds == [Low |-> 500, Medium |-> 900, High |-> 900, Saturated |-> 1000]

ThresholdChoices ==
    {DefaultPressureThresholds, CustomPressureThresholds, UnorderedPressureThresholds}

NoInventory ==
    [status |-> "none", err |-> "", nsInventories |-> <<>>, allContainers |-> <<>>,
     policies |-> <<>>]

NoClassified ==
    [status |-> "none", fn |-> "", utilization |-> ZeroUtilization,
     thresholds |-> DefaultPressureThresholds, level |-> PressureUnset]

NoDiff == [status |-> "none", err |-> "", diffs |-> <<>>, table |-> <<>>]

\* DefaultSettings().PressureThresholds
DefaultSettings ==
    [Low |-> Finite(500), Medium |-> Finite(750), High |-> Finite(900), Saturated |-> Finite(1000)]

\* the other fields of DefaultSettings() ("" is the empty string)
DefaultGeneral ==
    [Output |-> "text", Namespace |-> "", Context |-> "", Top |-> 20, Color |-> TRUE]

\* no file at ~/.cobrak/settings.toml; the keys of a file are those of the
\* table [pressure_thresholds] and the top-level ones
AbsentFile == [state |-> "absent", thresholds |-> <<>>, general |-> <<>>]

\* path: whether getConfigPath found the home directory
NoLoaded ==
    [status |-> "none", err |-> "", path |-> FALSE, thresholds |-> DefaultSettings,
     general |-> DefaultGeneral]

NoValidated == [status |-> "none", err |-> "", thresholds |-> DefaultSettings]

\* no `config` command has run and SaveSettings has not been called; general
\* and thresholds are the settings handed to SaveSettings
NoCommand ==
    [kind |-> "none", key |-> "", err |-> "", home |-> TRUE,
     general |-> DefaultGeneral, thresholds |-> DefaultSettings]

\* BuildPodSummaries has not been called
NoPodSummaries ==
    [status |-> "none", err |-> "", withUsage |-> FALSE, metrics |-> FALSE, summaries |-> <<>>]

\* AnalyzeSummary has not been called
NoCapacity == [status |-> "none", err |-> "", summary |-> <<>>]


RunIds == {1, 2}

\* a run that has not been called
IdleRun ==
    [pc |-> "idle", thresholds |-> DefaultPressureThresholds, nodes |-> <<>>, pods |-> <<>>,
     pressure |-> NoPressure]

(***************************************************************************)
(* The pressure analysis of a cluster snapshot.                            *)
(***************************************************************************)
Init ==
    /\ nodes = <<>>
    /\ pods = <<>>
    /\ limitRanges = <<>>
    /\ resourceQuotas = <<>>
    /\ pressure = NoPressure
    /\ inventory = NoInventory
    /\ classified = NoClassified
    /\ usages = <<>>
    /\ diff = NoDiff
    /\ settingsFile = AbsentFile
    /\ loaded = NoLoaded
    /\ validated = NoValidated
    /\ runs = [r \in RunIds |-> IdleRun]
    /\ failing = {}
    /\ podSummaries = NoPodSummaries
    /\ capacity = NoCapacity
    /\ command = NoCommand

\* the cluster gets a node (node names are unique)
AddNode(node) ==
    /\ pressure.status = "none"
    /\ \A i \in 1..Len(nodes) : nodes[i].Name # node.Name
    /\ nodes' = Append(nodes, node)
    /\ UNCHANGED <<pods, limitRanges, resourceQuotas, pressure, inventory, classified, failing>>
    /\ UNCHANGED <<usages, diff, settingsFile, loaded, validated, runs>>
    /\ UNCHANGED <<podSummaries, capacity, command>>

\* the cluster gets a pod, named after its place in the list
AddPod(pod) ==
    /\ pressure.status = "none"
    /\ Len(pods) < MaxPods
    /\ pods' = Append(pods, [pod EXCEPT !.Name = Len(pods) + 1])
    /\ UNCHANGED <<nodes, limitRanges, resourceQuotas, pressure, inventory, classified, failing>>
    /\ UNCHANGED <<usages, diff, settingsFile, loaded, validated, runs>>
    /\ UNCHANGED <<podSummaries, capacity, command>>

CalculatePressureWithThresholds(thresholds, failure, order) ==
    /\ pressure.status = "none"
    /\ pressure' = IF failure = "none"
                   THEN pressureResult(nodes, pods, thresholds, order)
                   ELSE pressureError(failure)
    /\ UNCHANGED <<nodes, pods, limitRanges, resourceQuotas, inventory, classified, failing>>
    /\ UNCHANGED <<usages, diff, settingsFile, loaded, validated, runs>>
    /\ UNCHANGED <<podSummaries, capacity, command>>

Next ==
    \/ \E node \in NodeChoices : AddNode(node)
    \/ \E pod \in PodChoices : AddPod(pod)
    \/ \E thresholds \in ThresholdChoices, failure \in {"none", "listing nodes", "listing pods"},
          order \in MapIterationOrders(NamespacesOf(pods)) :
            CalculatePressureWithThresholds(thresholds, failure, order)

Spec == Init /\ [][Next]_vars

(***************************************************************************)
(* Properties of the pressure analysis.                                    *)
(***************************************************************************)
\* LOW < MEDIUM < HIGH < SATURATED; a level that was never assigned ranks
\* with LOW
SeverityRank(l) ==
    CASE l = PressureMedium -> 1
      [] l = PressureHigh -> 2
      [] l = PressureSaturated -> 3
      [] OTHER -> 0

\* every reordering of a list
PermutationsOf(seq) ==
    {[i \in 1..Len(seq) |-> seq[o[i]]] : o \in MapIterationOrders(1..Len(seq))}

\* the levels the fields of the node pressures hold, the unset one included
NodeLevelValues ==
    {pressure.NodePressures[i].CPUPressure : i \in 1..Len(pressure.NodePressures)}
    \cup {pressure.NodePressures[i].MemPressure : i \in 1..Len(pressure.NodePressures)}

\* C1: combining is commutative and associative over every level a node
\* pressure field holds, and folding it over any reordering of the node
\* pressures gives the same worst CPU and memory levels.
C1_CombineOrderIndependent ==
    pressure.status = "ok" =>
        /\ \A a, b \in NodeLevelValues :
              combinePressureLevels(a, b) = combinePressureLevels(b, a)
        /\ \A a, b, c \in NodeLevelValues :
              combinePressureLevels(combinePressureLevels(a, b), c)
                  = combinePressureLevels(a, combinePressureLevels(b, c))
        /\ \A perm \in PermutationsOf(pressure.NodePressures) :
              findMaxNodePressures(perm) = findMaxNodePressures(pressure.NodePressures)

\* C2: Overall is the highest-ranked of the levels assigned to the CPU and
\* memory fields of the nodes.
C2_OverallIsWorstNodeLevel ==
    pressure.status = "ok" =>
        LET found == NodeLevelValues \cap PressureLevels
        IN  found # {} =>
                /\ pressure.Overall \in found
                /\ \A l \in found : SeverityRank(l) <= SeverityRank(pressure.Overall)

\* the level of the cluster-wide utilisation of a resource
ClusterCPULevel == getPressureLevel(pressure.CPUUtilization, pressure.thresholds)

ClusterMemLevel == getPressureLevel(pressure.MemUtilization, pressure.thresholds)

\* C3 as stated: Overall is never less severe than the level of the
\* cluster-wide CPU utilisation, nor than that of the cluster-wide memory
\* utilisation.
C3_OverallCoversClusterLevels ==
    pressure.status = "ok" =>
        /\ SeverityRank(pressure.Overall) >= SeverityRank(ClusterCPULevel)
        /\ SeverityRank(pressure.Overall) >= SeverityRank(ClusterMemLevel)

\* every pod that requests the resource runs on a listed node that has
\* allocatable of it
AllRequestsOnNodes(r) ==
    \A i \in 1..Len(pods) :
        addPodResourcesForNode(pods[i], r) > 0 =>
            \E j \in 1..Len(nodes) :
                /\ nodes[j].Name = pods[i].NodeName
                /\ QuantityOf(nodes[j].Allocatable, r) > 0

\* C3 (amended): with valid thresholds, Overall ranks at least as high as
\* the level of the cluster-wide CPU (memory) utilisation whenever every pod
\* requesting CPU (memory) runs on a listed node with allocatable CPU
\* (memory).
C3_OverallCoversClusterLevelsOfScheduledPods ==
    (pressure.status = "ok" /\ Validate(configThresholds(pressure.thresholds)) = "") =>
        /\ AllRequestsOnNodes("cpu") =>
              SeverityRank(pressure.Overall) >= SeverityRank(ClusterCPULevel)
        /\ AllRequestsOnNodes("memory") =>
              SeverityRank(pressure.Overall) >= SeverityRank(ClusterMemLevel)

\* a run over two nodes whose pods all run on nodes with allocatable, the
\* cluster-wide memory level above LOW and above the cluster-wide CPU level
C3_Witness ==
    /\ pressure.status = "ok"
    /\ Validate(configThresholds(pressure.thresholds)) = ""
    /\ Len(nodes) = 2
    /\ AllRequestsOnNodes("cpu")
    /\ AllRequestsOnNodes("memory")
    /\ getTotalRequested(pods).CPU > 0
    /\ SeverityRank(ClusterMemLevel) >= 2
    /\ SeverityRank(ClusterCPULevel) < SeverityRank(ClusterMemLevel)

\* C6: a result is never computed from thresholds that violate
\* 0 <= low < medium < high < saturated <= 100.
C6_InvalidThresholdsRejected ==
    Validate(configThresholds(pressure.thresholds)) # "" => pressure.status # "ok"

\* C7: a node without allocatable CPU (memory) reports CPU (memory)
\* utilisation 0 and no CPU (memory) level, and no utilisation is a
\* quotient by zero.
C7_ZeroAllocatableLeavesLevelUnset ==
    pressure.status = "ok" =>
        \A i \in 1..Len(nodes) :
            /\ QuantityOf(nodes[i].Allocatable, "cpu") = 0 =>
                  /\ pressure.NodePressures[i].CPUUtilization = ZeroUtilization
                  /\ pressure.NodePressures[i].CPUPressure = PressureUnset
            /\ QuantityOf(nodes[i].Allocatable, "memory") = 0 =>
                  /\ pressure.NodePressures[i].MemUtilization = ZeroUtilization
                  /\ pressure.NodePressures[i].MemPressure = PressureUnset
            /\ pressure.NodePressures[i].CPUUtilization.d # 0
            /\ pressure.NodePressures[i].MemUtilization.d # 0

\* the pods of a node request r
NodeRequests(i, r) ==
    \E k \in 1..Len(pods) :
        pods[k].NodeName = nodes[i].Name /\ addPodResourcesForNode(pods[k], r) > 0

\* a run over a node with zero allocatable CPU and a node with no allocatable
\* memory, each with pods that request the resource it lacks
C7_Witness ==
    /\ pressure.status = "ok"
    /\ \E i \in 1..Len(nodes) :
          /\ "cpu" \in DOMAIN nodes[i].Allocatable
          /\ nodes[i].Allocatable["cpu"] = 0
          /\ NodeRequests(i, "cpu")
    /\ \E i \in 1..Len(nodes) :
          /\ "memory" \notin DOMAIN nodes[i].Allocatable
          /\ NodeRequests(i, "memory")

(***************************************************************************)
(* The level-from-ratio functions on their own.                            *)
(***************************************************************************)
\* threshold values in tenths of a percent: 0, 50, 75, 90 and 100 percent
ThresholdValues == {0, 500, 750, 900, 1000}

\* every tuple of them, ordered or not
ThresholdTuples ==
    [Low : ThresholdValues, Medium : ThresholdValues, High : ThresholdValues,
     Saturated : ThresholdValues]

\* utilisations next to every threshold value, and 200 percent
UtilizationTenths ==
    ({v + e : v \in ThresholdValues, e \in {-1, 0, 1}} \cap Nat) \cup {2000}

Tenths(k) == [n |-> k, d |-> 10]

CallGetPressureLevel(utilization, thresholds) ==
    /\ classified.status = "none"
    /\ classified' = [status |-> "done", fn |-> "getPressureLevel",
                      utilization |-> utilization, thresholds |-> thresholds,
                      level |-> getPressureLevel(utilization, thresholds)]
    /\ UNCHANGED <<nodes, pods, limitRanges, resourceQuotas, pressure, inventory, failing>>
    /\ UNCHANGED <<usages, diff, settingsFile, loaded, validated, runs>>
    /\ UNCHANGED <<podSummaries, capacity, command>>

CallCalculatePressureLevelWithThresholds(utilization, thresholds) ==
    /\ classified.status = "none"
    /\ classified' = [status |-> "done", fn |-> "calculatePressureLevelWithThresholds",
                      utilization |-> utilization, thresholds |-> thresholds,
                      level |-> calculatePressureLevelWithThresholds(utilization, thresholds)]
    /\ UNCHANGED <<nodes, pods, limitRanges, resourceQuotas, pressure, inventory, failing>>
    /\ UNCHANGED <<usages, diff, settingsFile, loaded, validated, runs>>
    /\ UNCHANGED <<podSummaries, capacity, command>>

NextClassify ==
    \/ \E k \in UtilizationTenths, t \in ThresholdTuples : CallGetPressureLevel(Tenths(k), t)
    \/ \E k \in UtilizationTenths, t \in ThresholdTuples :
          CallCalculatePressureLevelWithThresholds(Tenths(k), t)

SpecClassify == Init /\ [][NextClassify]_vars

StrictlyOrdered(t) == t.Low < t.Medium /\ t.Medium < t.High /\ t.High < t.Saturated

\* utilisation < threshold, the threshold in tenths of a percent
Below(u, t) == u.n * 10 < t * u.d

DefaultLevelIs(k, l) ==
    (/\ classified.status = "done"
     /\ classified.thresholds = DefaultPressureThresholds
     /\ classified.utilization = Tenths(k)) => classified.level = l

extractContainerResources(ns, podName, c, isInit) ==
    [Namespace |-> ns, PodName |-> podName, ContainerName |-> c.Name, IsInit |-> isInit,
     CPURequest |-> QuantityOf(c.Requests, "cpu"),
     HasCPURequest |-> "cpu" \in DOMAIN c.Requests,
     CPULimit |-> QuantityOf(c.Limits, "cpu"),
     HasCPULimit |-> "cpu" \in DOMAIN c.Limits,
     MemRequest |-> QuantityOf(c.Requests, "memory"),
     HasMemRequest |-> "memory" \in DOMAIN c.Requests,
     MemLimit |-> QuantityOf(c.Limits, "memory"),
     HasMemLimit |-> "memory" \in DOMAIN c.Limits]

\* the records one pod appends to allContainers: its init containers, then
\* its containers
podContainerResources(pod) ==
    [i \in 1..Len(pod.InitContainers) |->
        extractContainerResources(pod.Namespace, pod.Name, pod.InitContainers[i], TRUE)]
    \o [i \in 1..Len(pod.Containers) |->
        extractContainerResources(pod.Namespace, pod.Name, pod.Containers[i], FALSE)]

RECURSIVE collectContainers(_)
\* allContainers before it is sorted
collectContainers(podList) ==
    IF podList = <<>> THEN <<>>
    ELSE podContainerResources(Head(podList)) \o collectContainers(Tail(podList))

emptyNamespaceInventory(ns) ==
    [Namespace |-> ns, ContainersTotal |-> 0,
     ContainersMissingAnyRequests |-> 0, ContainersMissingAnyLimits |-> 0,
     CPURequestsTotal |-> 0, CPULimitsTotal |-> 0, MemRequestsTotal |-> 0, MemLimitsTotal |-> 0]

\* addToNamespaceInventory counting a container that lacks either request
\* (either limit)
addToNamespaceInventoryMissingEither(inv, cr) ==
    [inv EXCEPT
        !.ContainersTotal = @ + 1,
        !.ContainersMissingAnyRequests =
            IF ~cr.HasCPURequest \/ ~cr.HasMemRequest THEN @ + 1 ELSE @,
        !.ContainersMissingAnyLimits =
            IF ~cr.HasCPULimit \/ ~cr.HasMemLimit THEN @ + 1 ELSE @,
        !.CPURequestsTotal = IF cr.HasCPURequest THEN @ + cr.CPURequest ELSE @,
        !.CPULimitsTotal = IF cr.HasCPULimit THEN @ + cr.CPULimit ELSE @,
        !.MemRequestsTotal = IF cr.HasMemRequest THEN @ + cr.MemRequest ELSE @,
        !.MemLimitsTotal = IF cr.HasMemLimit THEN @ + cr.MemLimit ELSE @]

\* addToNamespaceInventory adding the memory limit to the memory requests
addToNamespaceInventoryLimitAsRequest(inv, cr) ==
    [inv EXCEPT
        !.ContainersTotal = @ + 1,
        !.ContainersMissingAnyRequests =
            IF ~cr.HasCPURequest /\ ~cr.HasMemRequest THEN @ + 1 ELSE @,
        !.ContainersMissingAnyLimits =
            IF ~cr.HasCPULimit /\ ~cr.HasMemLimit THEN @ + 1 ELSE @,
        !.CPURequestsTotal = IF cr.HasCPURequest THEN @ + cr.CPURequest ELSE @,
        !.CPULimitsTotal = IF cr.HasCPULimit THEN @ + cr.CPULimit ELSE @,
        !.MemRequestsTotal = IF cr.HasMemLimit THEN @ + cr.MemLimit ELSE @,
        !.MemLimitsTotal = IF cr.HasMemLimit THEN @ + cr.MemLimit ELSE @]

addToNamespaceInventory(inv, cr) ==
    [inv EXCEPT
        !.ContainersTotal = @ + 1,
        !.ContainersMissingAnyRequests =
            IF ~cr.HasCPURequest /\ ~cr.HasMemRequest THEN @ + 1 ELSE @,
        !.ContainersMissingAnyLimits =
            IF ~cr.HasCPULimit /\ ~cr.HasMemLimit THEN @ + 1 ELSE @,
        !.CPURequestsTotal = IF cr.HasCPURequest THEN @ + cr.CPURequest ELSE @,
        !.CPULimitsTotal = IF cr.HasCPULimit THEN @ + cr.CPULimit ELSE @,
        !.MemRequestsTotal = IF cr.HasMemRequest THEN @ + cr.MemRequest ELSE @,
        !.MemLimitsTotal = IF cr.HasMemLimit THEN @ + cr.MemLimit ELSE @]

RECURSIVE addAllToNamespaceInventory(_, _)
addAllToNamespaceInventory(inv, crs) ==
    IF crs = <<>> THEN inv
    ELSE addAllToNamespaceInventory(addToNamespaceInventory(inv, Head(crs)), Tail(crs))

\* nsMap[ns] when the loop over the pods has ended
namespaceInventoryOf(ns, podList) ==
    LET InNamespace(cr) == cr.Namespace = ns
    IN  addAllToNamespaceInventory(emptyNamespaceInventory(ns),
                                   SelectSeq(collectContainers(podList), InNamespace))

RECURSIVE sortStrings(_)
\* sort.Strings over the keys of a map: the names in ascending order
sortStrings(S) ==
    IF S = {} THEN <<>>
    ELSE LET least == CHOOSE x \in S : \A y \in S : x <= y
         IN  <<least>> \o sortStrings(S \ {least})

\* the less function handed to sort.Slice, placing regular before init
containerLessRegularFirst(a, b) ==
    IF a.Namespace # b.Namespace THEN a.Namespace < b.Namespace
    ELSE IF a.PodName # b.PodName THEN a.PodName < b.PodName
    ELSE IF a.ContainerName # b.ContainerName THEN a.ContainerName < b.ContainerName
    ELSE ~a.IsInit /\ b.IsInit

\* the less function handed to sort.Slice
containerLess(a, b) ==
    IF a.Namespace # b.Namespace THEN a.Namespace < b.Namespace
    ELSE IF a.PodName # b.PodName THEN a.PodName < b.PodName
    ELSE IF a.ContainerName # b.ContainerName THEN a.ContainerName < b.ContainerName
    ELSE a.IsInit /\ ~b.IsInit

RemoveAt(seq, i) == SubSeq(seq, 1, i - 1) \o SubSeq(seq, i + 1, Len(seq))

RECURSIVE sortSlice(_)
\* sort.Slice is not stable: every arrangement of the records in which none
\* is less than one before it is a possible outcome
sortSlice(seq) ==
    IF seq = <<>> THEN {<<>>}
    ELSE UNION { { <<seq[i]>> \o rest : rest \in sortSlice(RemoveAt(seq, i)) } :
                 i \in {k \in 1..Len(seq) : \A j \in 1..Len(seq) : ~containerLess(seq[j], seq[k])} }

\* the namespaces that have a limit range or a resource quota
policyNamespaces(lrs, rqs) ==
    {lrs[i].Namespace : i \in 1..Len(lrs)} \cup {rqs[i].Namespace : i \in 1..Len(rqs)}

\* policyMap[ns]: the summaries of the namespace's limit ranges and resource
\* quotas, in list order (a summary is modelled by the object's name)
policySummary(ns, lrs, rqs) ==
    LET InNamespace(o) == o.Namespace = ns
        names(objects) == [i \in 1..Len(objects) |-> objects[i].Name]
    IN  [Namespace |-> ns,
         LimitRanges |-> names(SelectSeq(lrs, InNamespace)),
         ResourceQuotas |-> names(SelectSeq(rqs, InNamespace))]

\* what BuildInventory returns when the three lists were fetched, for one
\* outcome of the sort
inventoryResult(podList, lrs, rqs, sorted) ==
    LET nsKeys == sortStrings(NamespacesOf(podList))
        policyKeys == sortStrings(policyNamespaces(lrs, rqs))
    IN  [status |-> "ok", err |-> "",
         nsInventories |-> [i \in 1..Len(nsKeys) |-> namespaceInventoryOf(nsKeys[i], podList)],
         allContainers |-> sorted,
         policies |-> [i \in 1..Len(policyKeys) |-> policySummary(policyKeys[i], lrs, rqs)]]

\* what it returns when a list call fails: nil and the error
inventoryError(failure) == [NoInventory EXCEPT !.status = "error", !.err = failure]

(***************************************************************************)
(* The inventory of a cluster snapshot.                                    *)
(***************************************************************************)
PodNames == {1, 2}

\* requests and limits of a container: nothing; a CPU request only; a memory
\* request and both limits; both requests, the CPU one zero, and a memory limit
ContainerNothing(name) == Container(name, NoResources, NoResources)

ContainerCPURequest(name) == Container(name, CPUOnly(1), NoResources)

ContainerMemRequest(name) == Container(name, MemoryOnly(2), CPUAndMemory(2, 4))

ContainerZeroCPU(name) == Container(name, CPUAndMemory(0, 1), MemoryOnly(3))

\* two containers listed against the order of their names; an init container
\* and a container of the same name; one container
InventoryPodShapes ==
    { [InitContainers |-> <<>>,
       Containers |-> <<ContainerCPURequest(2), ContainerNothing(1)>>],
      [InitContainers |-> <<ContainerMemRequest(1)>>,
       Containers |-> <<ContainerZeroCPU(1)>>],
      [InitContainers |-> <<>>, Containers |-> <<ContainerMemRequest(1)>>] }

InventoryPodChoices ==
    { [Namespace |-> ns, Name |-> name, NodeName |-> 0,
       InitContainers |-> sh.InitContainers, Containers |-> sh.Containers] :
        ns \in Namespaces, name \in PodNames, sh \in InventoryPodShapes }

\* the cluster gets a pod (a namespace holds one pod of a name)
AddInventoryPod(pod) ==
    /\ inventory.status = "none"
    /\ Len(pods) < MaxPods
    /\ \A i \in 1..Len(pods) : pods[i].Namespace # pod.Namespace \/ pods[i].Name # pod.Name
    /\ pods' = Append(pods, pod)
    /\ UNCHANGED <<nodes, limitRanges, resourceQuotas, pressure, inventory, classified, failing>>
    /\ UNCHANGED <<usages, diff, settingsFile, loaded, validated, runs>>
    /\ UNCHANGED <<podSummaries, capacity, command>>

\* the cluster gets a limit range, named after its place in the list
AddLimitRange(ns) ==
    /\ inventory.status = "none"
    /\ Len(limitRanges) < MaxPolicies
    /\ limitRanges' = Append(limitRanges, [Namespace |-> ns, Name |-> Len(limitRanges) + 1])
    /\ UNCHANGED <<nodes, pods, resourceQuotas, pressure, inventory, classified, failing>>
    /\ UNCHANGED <<usages, diff, settingsFile, loaded, validated, runs>>
    /\ UNCHANGED <<podSummaries, capacity, command>>

\* the cluster gets a resource quota, named after its place in the list
AddResourceQuota(ns) ==
    /\ inventory.status = "none"
    /\ Len(resourceQuotas) < MaxPolicies
    /\ resourceQuotas' =
          Append(resourceQuotas, [Namespace |-> ns, Name |-> Len(resourceQuotas) + 1])
    /\ UNCHANGED <<nodes, pods, limitRanges, pressure, inventory, classified, failing>>
    /\ UNCHANGED <<usages, diff, settingsFile, loaded, validated, runs>>
    /\ UNCHANGED <<podSummaries, capacity, command>>

BuildInventory(failure, sorted) ==
    /\ inventory.status = "none"
    /\ inventory' = IF failure = "none"
                    THEN inventoryResult(pods, limitRanges, resourceQuotas, sorted)
                    ELSE inventoryError(failure)
    /\ UNCHANGED <<nodes, pods, limitRanges, resourceQuotas, pressure, classified, failing>>
    /\ UNCHANGED <<usages, diff, settingsFile, loaded, validated, runs>>
    /\ UNCHANGED <<podSummaries, capacity, command>>

NextInventory ==
    \/ \E pod \in InventoryPodChoices : AddInventoryPod(pod)
    \/ \E ns \in Namespaces : AddLimitRange(ns)
    \/ \E ns \in Namespaces : AddResourceQuota(ns)
    \/ \E failure \in {"none", "listing pods", "listing limitranges", "listing resourcequotas"},
          sorted \in sortSlice(collectContainers(pods)) :
            BuildInventory(failure, sorted)

SpecInventory == Init /\ [][NextInventory]_vars

(***************************************************************************)
(* Properties of the inventory.                                            *)
(***************************************************************************)
\* the containers of the cluster's pods, init and regular, as
\* <<pod index, "init" or "regular", container index>>
ContainerPlaces ==
    UNION { {<<i, "init", k>> : k \in 1..Len(pods[i].InitContainers)}
            \cup {<<i, "regular", k>> : k \in 1..Len(pods[i].Containers)} :
            i \in 1..Len(pods) }

ContainerAt(pl) ==
    IF pl[2] = "init" THEN pods[pl[1]].InitContainers[pl[3]]
    ELSE pods[pl[1]].Containers[pl[3]]

\* the containers of a namespace
ContainersIn(ns) ==
    {pl \in ContainerPlaces : pods[pl[1]].Namespace = ns}

\* every namespace that has a pod has exactly one inventory
OneInventoryPerNamespace ==
    /\ {inventory.nsInventories[i].Namespace : i \in 1..Len(inventory.nsInventories)}
          = NamespacesOf(pods)
    /\ Len(inventory.nsInventories) = Cardinality(NamespacesOf(pods))

RECURSIVE SumOf(_)
SumOf(numbers) == IF numbers = <<>> THEN 0 ELSE Head(numbers) + SumOf(Tail(numbers))

\* the quantities of one field over the returned container records of a
\* namespace whose flag for the field is set
PresentQuantities(ns, field, flag) ==
    LET Counted(cr) == cr.Namespace = ns /\ cr[flag]
        counted == SelectSeq(inventory.allContainers, Counted)
    IN  [k \in 1..Len(counted) |-> counted[k][field]]

\* C9: each of the four totals of a namespace is the sum of the quantity
\* over the namespace's containers whose presence flag for it is true.
C9_TotalsSumPresentQuantities ==
    inventory.status = "ok" =>
        \A i \in 1..Len(inventory.nsInventories) :
            LET inv == inventory.nsInventories[i]
                ns == inv.Namespace
            IN  /\ inv.CPURequestsTotal = SumOf(PresentQuantities(ns, "CPURequest", "HasCPURequest"))
                /\ inv.CPULimitsTotal = SumOf(PresentQuantities(ns, "CPULimit", "HasCPULimit"))
                /\ inv.MemRequestsTotal = SumOf(PresentQuantities(ns, "MemRequest", "HasMemRequest"))
                /\ inv.MemLimitsTotal = SumOf(PresentQuantities(ns, "MemLimit", "HasMemLimit"))

\* an inventory of a namespace where some containers have a memory request
\* and some have none, and the four totals differ
C9_Witness ==
    /\ inventory.status = "ok"
    /\ \E i \in 1..Len(inventory.nsInventories) :
          LET inv == inventory.nsInventories[i]
          IN  /\ Len(PresentQuantities(inv.Namespace, "MemRequest", "HasMemRequest")) >= 2
              /\ Len(PresentQuantities(inv.Namespace, "MemRequest", "HasMemRequest"))
                    < inv.ContainersTotal
              /\ Cardinality({inv.CPURequestsTotal, inv.CPULimitsTotal,
                              inv.MemRequestsTotal, inv.MemLimitsTotal}) = 4

NamespacesAscending ==
    \A i, j \in 1..Len(inventory.nsInventories) :
        i < j => inventory.nsInventories[i].Namespace < inventory.nsInventories[j].Namespace

RegularFirst == [isInit \in BOOLEAN |-> IF isInit THEN 1 ELSE 0]

InitFirst == [isInit \in BOOLEAN |-> IF isInit THEN 0 ELSE 1]

\* a comes before b by namespace, then pod, then container name, then by
\* the given rank of init and regular containers
OrderedBy(a, b, initRank) ==
    \/ a.Namespace < b.Namespace
    \/ a.Namespace = b.Namespace /\ a.PodName < b.PodName
    \/ a.Namespace = b.Namespace /\ a.PodName = b.PodName /\ a.ContainerName < b.ContainerName
    \/ /\ a.Namespace = b.Namespace
       /\ a.PodName = b.PodName
       /\ a.ContainerName = b.ContainerName
       /\ initRank[a.IsInit] <= initRank[b.IsInit]

\* C10 as stated: namespaces ascend by name, and containers ascend by
\* namespace, pod name and container name, a regular container before an
\* init container of the same three names.
C10_SortedRegularBeforeInit ==
    inventory.status = "ok" =>
        /\ NamespacesAscending
        /\ \A i, j \in 1..Len(inventory.allContainers) :
              i < j => OrderedBy(inventory.allContainers[i], inventory.allContainers[j], RegularFirst)

\* C10 (amended): the same order, but an init container before a regular
\* container of the same three names.
C10_SortedInitBeforeRegular ==
    inventory.status = "ok" =>
        /\ NamespacesAscending
        /\ \A i, j \in 1..Len(inventory.allContainers) :
              i < j => OrderedBy(inventory.allContainers[i], inventory.allContainers[j], InitFirst)

\* an inventory of two namespaces listed in descending order, with a pod
\* whose init container and container share a name, and with records that
\* the sort had to move
C10_Witness ==
    /\ inventory.status = "ok"
    /\ Len(inventory.nsInventories) = 2
    /\ pods[1].Namespace > pods[2].Namespace
    /\ inventory.allContainers # collectContainers(pods)
    /\ \E i \in 1..Len(inventory.allContainers) - 1 :
          /\ inventory.allContainers[i].IsInit
          /\ ~inventory.allContainers[i + 1].IsInit
          /\ inventory.allContainers[i].PodName = inventory.allContainers[i + 1].PodName
          /\ inventory.allContainers[i].ContainerName
                = inventory.allContainers[i + 1].ContainerName

(***************************************************************************)
(* Reproducibility of the pressure analysis.                               *)
(***************************************************************************)
\* C11: for a fixed snapshot and fixed thresholds the pressure calculation
\* has one possible output, the order of every returned list included: the
\* result returned is the result of every other run on the same input.
C11_PressureOutputDetermined ==
    pressure.status = "ok" =>
        \A order \in MapIterationOrders(NamespacesOf(pods)) :
            pressure = pressureResult(nodes, pods, pressure.thresholds, order)

(***************************************************************************)
(* The usage diff (pkg/resources/usage.go, pkg/resources/diff.go,          *)
(* RenderDiffTable of pkg/output/render.go, cmd/resources_diff.go).        *)
(* A ratio is the exact rational [n, d]; a ratio never assigned has the    *)
(* float64 zero value.                                                     *)
(***************************************************************************)
ZeroRatio == [n |-> 0, d |-> 1]

\* the zero value of ContainerUsage, what a Go map returns for a missing key
ZeroUsage == [Namespace |-> 0, PodName |-> 0, ContainerName |-> 0, CPUUsage |-> 0, MemUsage |-> 0]

\* the less function of extractContainerUsages
usageLess(a, b) ==
    IF a.Namespace # b.Namespace THEN a.Namespace < b.Namespace
    ELSE IF a.PodName # b.PodName THEN a.PodName < b.PodName
    ELSE a.ContainerName < b.ContainerName

RECURSIVE extractContainerUsages(_)
\* the usages of the metrics items, sorted (a cluster has one metrics record
\* for a container, so the sorted list is unique)
extractContainerUsages(items) ==
    IF items = <<>> THEN <<>>
    ELSE LET least == CHOOSE i \in 1..Len(items) :
                          \A j \in 1..Len(items) : ~usageLess(items[j], items[i])
         IN  <<items[least]>> \o extractContainerUsages(RemoveAt(items, least))

\* usageMap[k] after the loop that fills the map: the last record with the
\* key, the zero value when there is none
usageMapAt(usageList, cr) ==
    LET matches == {i \in 1..Len(usageList) :
                        /\ usageList[i].Namespace = cr.Namespace
                        /\ usageList[i].PodName = cr.PodName
                        /\ usageList[i].ContainerName = cr.ContainerName}
    IN  IF matches = {} THEN ZeroUsage
        ELSE usageList[CHOOSE i \in matches : \A j \in matches : j <= i]

\* the ratio computed as request / usage
usageToRequestInverted(usage, request, hasRequest) ==
    IF hasRequest /\ request # 0 /\ usage # 0 THEN [n |-> request, d |-> usage] ELSE ZeroRatio

\* diff.CPUUsageToRequest, diff.MemUsageToRequest
usageToRequest(usage, request, hasRequest) ==
    IF hasRequest /\ request # 0 THEN [n |-> usage, d |-> request] ELSE ZeroRatio

\* the ContainerDiff of one inventory record
containerDiff(cr, usageList) ==
    LET u == usageMapAt(usageList, cr)
    IN  [Namespace |-> cr.Namespace, PodName |-> cr.PodName, ContainerName |-> cr.ContainerName,
         CPUUsage |-> u.CPUUsage, CPURequest |-> cr.CPURequest, CPULimit |-> cr.CPULimit,
         HasCPURequest |-> cr.HasCPURequest, HasCPULimit |-> cr.HasCPULimit,
         MemUsage |-> u.MemUsage, MemRequest |-> cr.MemRequest, MemLimit |-> cr.MemLimit,
         HasMemRequest |-> cr.HasMemRequest, HasMemLimit |-> cr.HasMemLimit,
         CPUUsageToRequest |-> usageToRequest(u.CPUUsage, cr.CPURequest, cr.HasCPURequest),
         MemUsageToRequest |-> usageToRequest(u.MemUsage, cr.MemRequest, cr.HasMemRequest)]

\* the less function of BuildDiff, descending
diffLessDescending(a, b) ==
    IF a.Namespace # b.Namespace THEN a.Namespace > b.Namespace
    ELSE IF a.PodName # b.PodName THEN a.PodName > b.PodName
    ELSE a.ContainerName > b.ContainerName

\* the less function BuildDiff hands to sort.Slice
diffLess(a, b) ==
    IF a.Namespace # b.Namespace THEN a.Namespace < b.Namespace
    ELSE IF a.PodName # b.PodName THEN a.PodName < b.PodName
    ELSE a.ContainerName < b.ContainerName

RECURSIVE arrangeDiffs(_)
\* every arrangement of the diffs in which none is less than one before it
arrangeDiffs(seq) ==
    IF seq = <<>> THEN {<<>>}
    ELSE UNION { { <<seq[i]>> \o rest : rest \in arrangeDiffs(RemoveAt(seq, i)) } :
                 i \in {k \in 1..Len(seq) : \A j \in 1..Len(seq) : ~diffLess(seq[j], seq[k])} }

\* sort.Slice(diffs, less): a slice that is in order already is left as it
\* is (the sort moves a record only past one it is less than); another slice
\* may end in any arrangement that is in order, as the sort is not stable
sortDiffs(seq) ==
    IF \A i, j \in 1..Len(seq) : i < j => ~diffLess(seq[j], seq[i])
    THEN {seq}
    ELSE arrangeDiffs(seq)

\* the diffs of BuildDiff before they are sorted
joinDiffs(inventoryList, usageList) ==
    [i \in 1..Len(inventoryList) |-> containerDiff(inventoryList[i], usageList)]

\* a ratio cell of the table: "-" or the ratio printed with "%.2f"
Dash == [text |-> "-", hundredths |-> 0]

ratioCell(hasRequest, ratio) ==
    IF hasRequest
    THEN [text |-> "%.2f", hundredths |-> RoundToInteger([n |-> 100 * ratio.n, d |-> ratio.d])]
    ELSE Dash

\* RenderDiffTable: the rows of the table (none for "No diff data available.")
RenderDiffTable(diffs, top) ==
    LET shown == IF top > 0 /\ Len(diffs) > top THEN SubSeq(diffs, 1, top) ELSE diffs
    IN  [i \in 1..Len(shown) |->
            [Namespace |-> shown[i].Namespace, PodName |-> shown[i].PodName,
             ContainerName |-> shown[i].ContainerName,
             CPUUsage |-> shown[i].CPUUsage, CPURequest |-> shown[i].CPURequest,
             CPURatio |-> ratioCell(shown[i].HasCPURequest, shown[i].CPUUsageToRequest),
             MemUsage |-> shown[i].MemUsage, MemRequest |-> shown[i].MemRequest,
             MemRatio |-> ratioCell(shown[i].HasMemRequest, shown[i].MemUsageToRequest)]]

(***************************************************************************)
(* The diff command on a cluster snapshot.                                 *)
(***************************************************************************)
\* the usages a metrics record may report for the containers of pod 1 of
\* namespace 1: CPU and memory in use, an idle CPU, no memory in use
UsageChoices ==
    { [Namespace |-> 1, PodName |-> 1, ContainerName |-> c, CPUUsage |-> q[1], MemUsage |-> q[2]] :
        c \in {1, 2}, q \in {<<1, 1>>, <<0, 3>>, <<2, 0>>} }

\* --top of the command: all rows, or the first row only
TopChoices == {0, 1}

\* the metrics API gets the usage of a container (one record for a container)
AddUsage(u) ==
    /\ diff.status = "none"
    /\ \A i \in 1..Len(usages) :
          \/ usages[i].Namespace # u.Namespace
          \/ usages[i].PodName # u.PodName
          \/ usages[i].ContainerName # u.ContainerName
    /\ usages' = Append(usages, u)
    /\ UNCHANGED <<nodes, pods, limitRanges, resourceQuotas, pressure, inventory, classified, failing>>
    /\ UNCHANGED <<diff, settingsFile, loaded, validated, runs>>
    /\ UNCHANGED <<podSummaries, capacity, command>>

\* what the command leaves when a step fails: the error, nothing printed
diffError(failure) == [NoDiff EXCEPT !.status = "error", !.err = failure]

\* runResourcesDiff: the availability check of the metrics API, BuildInventory,
\* PodMetrics, BuildDiff and RenderDiffTable
runResourcesDiff(failure, sorted, arranged, top) ==
    /\ diff.status = "none"
    /\ inventory.status = "none"
    /\ inventory' = IF failure = "metrics unavailable" THEN inventory
                    ELSE IF failure = "building inventory" THEN inventoryError("listing pods")
                    ELSE inventoryResult(pods, limitRanges, resourceQuotas, sorted)
    /\ diff' = IF failure = "none"
               THEN [status |-> "ok", err |-> "", diffs |-> arranged,
                     table |-> RenderDiffTable(arranged, top)]
               ELSE diffError(failure)
    /\ UNCHANGED <<nodes, pods, limitRanges, resourceQuotas, pressure, classified, failing>>
    /\ UNCHANGED <<usages, settingsFile, loaded, validated, runs>>
    /\ UNCHANGED <<podSummaries, capacity, command>>

NextDiff ==
    \/ \E pod \in InventoryPodChoices : AddInventoryPod(pod)
    \/ \E u \in UsageChoices : AddUsage(u)
    \/ \E failure \in {"none", "metrics unavailable", "building inventory", "fetching pod metrics"},
          sorted \in sortSlice(collectContainers(pods)), top \in TopChoices :
            \E arranged \in sortDiffs(joinDiffs(sorted, extractContainerUsages(usages))) :
                runResourcesDiff(failure, sorted, arranged, top)

SpecDiff == Init /\ [][NextDiff]_vars

(***************************************************************************)
(* Properties of the diff.                                                 *)
(***************************************************************************)
\* the usage records of the metrics API for the container of a record
UsagesOf(rec) ==
    {i \in 1..Len(usages) :
        /\ usages[i].Namespace = rec.Namespace
        /\ usages[i].PodName = rec.PodName
        /\ usages[i].ContainerName = rec.ContainerName}

\* the ratio is num / den
RatioIs(ratio, num, den) == den # 0 /\ ratio.n * den = num * ratio.d

\* the diff is the one of the inventory record: its names, requests and flags
DiffOf(d, cr) ==
    /\ d.Namespace = cr.Namespace /\ d.PodName = cr.PodName
    /\ d.ContainerName = cr.ContainerName
    /\ d.CPURequest = cr.CPURequest /\ d.HasCPURequest = cr.HasCPURequest
    /\ d.MemRequest = cr.MemRequest /\ d.HasMemRequest = cr.HasMemRequest
    /\ d.CPULimit = cr.CPULimit /\ d.HasCPULimit = cr.HasCPULimit
    /\ d.MemLimit = cr.MemLimit /\ d.HasMemLimit = cr.HasMemLimit

\* C12: every inventory record has a diff, and where its CPU (memory)
\* request is present and not zero and the container has a usage record,
\* the CPU (memory) ratio of the diff is that usage divided by that request.
C12_RatioIsUsageOverRequest ==
    diff.status = "ok" =>
        /\ \A k \in 1..Len(inventory.allContainers) :
              \E i \in 1..Len(diff.diffs) : DiffOf(diff.diffs[i], inventory.allContainers[k])
        /\ \A i \in 1..Len(diff.diffs) : \A u \in UsagesOf(diff.diffs[i]) :
              LET d == diff.diffs[i]
              IN  /\ (d.HasCPURequest /\ d.CPURequest # 0) =>
                        RatioIs(d.CPUUsageToRequest, usages[u].CPUUsage, d.CPURequest)
                  /\ (d.HasMemRequest /\ d.MemRequest # 0) =>
                        RatioIs(d.MemUsageToRequest, usages[u].MemUsage, d.MemRequest)

\* a diff of a container that requests 2 of memory and uses 1, the ratio
\* one half, next to a diff of a container without a usage record
C12_Witness ==
    /\ diff.status = "ok"
    /\ \E i \in 1..Len(diff.diffs) :
          /\ UsagesOf(diff.diffs[i]) # {}
          /\ diff.diffs[i].MemRequest = 2 /\ diff.diffs[i].MemUsage = 1
          /\ diff.diffs[i].MemUsageToRequest = [n |-> 1, d |-> 2]
    /\ \E i \in 1..Len(diff.diffs) : UsagesOf(diff.diffs[i]) = {}

\* C13: where the CPU (memory) request of a container is absent or zero, the
\* CPU (memory) ratio is omitted from what the command reports: the cell of
\* the table is "-", never a number.
C13_RatioOmittedWithoutRequest ==
    diff.status = "ok" =>
        \A i \in 1..Len(diff.table) :
            LET d == diff.diffs[i]
            IN  /\ (~d.HasCPURequest \/ d.CPURequest = 0) => diff.table[i].CPURatio = Dash
                /\ (~d.HasMemRequest \/ d.MemRequest = 0) => diff.table[i].MemRatio = Dash

\* C14: for a container without a usage record the usage fields are zero and
\* both ratios are left undefined: the cells of the table are "-", also
\* where the request is present and not zero.
C14_RatioUndefinedWithoutUsage ==
    diff.status = "ok" =>
        \A i \in 1..Len(diff.table) :
            UsagesOf(diff.diffs[i]) = {} =>
                /\ diff.diffs[i].CPUUsage = 0 /\ diff.diffs[i].MemUsage = 0
                /\ diff.table[i].CPURatio = Dash
                /\ diff.table[i].MemRatio = Dash

RECURSIVE SumOverSet(_, _, _)
\* the sum of the quantity of resource r over the containers at the places S
SumOverSet(S, podList, r) ==
    IF S = {} THEN 0
    ELSE LET pl == CHOOSE x \in S : TRUE
         IN  QuantityOf(podList[pl[1]].Containers[pl[2]].Requests, r)
             + SumOverSet(S \ {pl}, podList, r)

\* the containers of the pods of a namespace, as <<pod index, container index>>
NamespaceContainers(ns) ==
    UNION { {<<i, k>> : k \in 1..Len(pods[i].Containers)} :
            i \in {j \in 1..Len(pods) : pods[j].Namespace = ns} }

RECURSIVE SumOverNodes(_, _)
\* the allocatable of resource r summed over the nodes with the indexes S
SumOverNodes(S, r) ==
    IF S = {} THEN 0
    ELSE LET i == CHOOSE x \in S : TRUE
         IN  QuantityOf(nodes[i].Allocatable, r) + SumOverNodes(S \ {i}, r)

\* the percentage is 100 * part / whole
PercentIs(percent, part, whole) == percent.n * whole = 100 * part * percent.d

ThresholdKeys == {"low", "medium", "high", "saturated"}

\* the values handed to Validate: below 0, the bounds, the defaults, above
\* 100, and NaN
ValidateValues ==
    {Finite(-100), Finite(0), Finite(500), Finite(750), Finite(900), Finite(1000),
     Finite(1500), NaN}

ValidateTuples == [Low : ValidateValues, Medium : ValidateValues,
                   High : ValidateValues, Saturated : ValidateValues]

\* the values a key of [pressure_thresholds] may have in the file ("nan" is
\* a float of TOML)
FileValues == {Finite(-100), Finite(300), Finite(600), Finite(900), Finite(1500), NaN}

\* the settings files: one that is no TOML, and the TOML files that set any
\* of the four keys
FileChoices ==
    {[state |-> "garbled", thresholds |-> <<>>, general |-> <<>>]}
    \cup { [state |-> "toml", thresholds |-> t, general |-> <<>>] :
             t \in UNION { [keys -> FileValues] : keys \in SUBSET ThresholdKeys } }

\* toml.DecodeFile into the default settings: a key of the file replaces the
\* default, a key it lacks leaves the default
decodeInto(defaults, file) ==
    LET value(key, default) ==
            IF key \in DOMAIN file.thresholds THEN file.thresholds[key] ELSE default
    IN  [Low |-> value("low", defaults.Low), Medium |-> value("medium", defaults.Medium),
         High |-> value("high", defaults.High),
         Saturated |-> value("saturated", defaults.Saturated)]

\* the top-level keys decoded into the default settings
decodeGeneral(defaults, file) ==
    LET value(key, default) ==
            IF key \in DOMAIN file.general THEN file.general[key] ELSE default
    IN  [Output |-> value("output", defaults.Output),
         Namespace |-> value("namespace", defaults.Namespace),
         Context |-> value("context", defaults.Context),
         Top |-> value("top", defaults.Top),
         Color |-> value("color", defaults.Color)]

\* what LoadSettings returns: the settings, or nil and an error
loadSettings(home, file) ==
    IF ~home
    THEN [status |-> "ok", err |-> "", path |-> FALSE, thresholds |-> DefaultSettings,
          general |-> DefaultGeneral]
    ELSE IF file.state = "absent"
    THEN [status |-> "ok", err |-> "", path |-> TRUE, thresholds |-> DefaultSettings,
          general |-> DefaultGeneral]
    ELSE IF file.state = "garbled"
    THEN [NoLoaded EXCEPT !.status = "error", !.err = "reading config file", !.path = TRUE]
    ELSE IF Validate(decodeInto(DefaultSettings, file)) # ""
    THEN [NoLoaded EXCEPT !.status = "error", !.path = TRUE,
                          !.err = "invalid pressure thresholds in config"]
    ELSE [status |-> "ok", err |-> "", path |-> TRUE,
          thresholds |-> decodeInto(DefaultSettings, file),
          general |-> decodeGeneral(DefaultGeneral, file)]

\* a call of PressureThresholds.Validate
CallValidate(pt) ==
    /\ validated.status = "none"
    /\ settingsFile.state = "absent"
    /\ loaded.status = "none"
    /\ validated' = [status |-> "done", err |-> Validate(pt), thresholds |-> pt]
    /\ UNCHANGED <<nodes, pods, limitRanges, resourceQuotas, pressure, inventory, classified, failing>>
    /\ UNCHANGED <<usages, diff, settingsFile, loaded, runs>>
    /\ UNCHANGED <<podSummaries, capacity, command>>

\* the user writes ~/.cobrak/settings.toml
WriteSettingsFile(file) ==
    /\ settingsFile.state = "absent"
    /\ validated.status = "none"
    /\ loaded.status = "none"
    /\ settingsFile' = file
    /\ UNCHANGED <<nodes, pods, limitRanges, resourceQuotas, pressure, inventory, classified, failing>>
    /\ UNCHANGED <<usages, diff, loaded, validated, runs>>
    /\ UNCHANGED <<podSummaries, capacity, command>>

\* LoadSettings, with or without a home directory
LoadSettings(home) ==
    /\ loaded.status = "none"
    /\ validated.status = "none"
    /\ loaded' = loadSettings(home, settingsFile)
    /\ UNCHANGED <<nodes, pods, limitRanges, resourceQuotas, pressure, inventory, classified, failing>>
    /\ UNCHANGED <<usages, diff, settingsFile, validated, runs>>
    /\ UNCHANGED <<podSummaries, capacity, command>>

NextSettings ==
    \/ \E pt \in ValidateTuples : CallValidate(pt)
    \/ \E file \in FileChoices : WriteSettingsFile(file)
    \/ \E home \in BOOLEAN : LoadSettings(home)

SpecSettings == Init /\ [][NextSettings]_vars

(***************************************************************************)
(* Properties of the settings.                                             *)
(***************************************************************************)
\* the value lies in [0, 100]
InRange(v) == ~v.nan /\ v.tenths >= 0 /\ v.tenths <= 1000

\* all four values lie in [0, 100] and low < medium < high < saturated
InRangeAndOrdered(pt) ==
    /\ InRange(pt.Low) /\ InRange(pt.Medium) /\ InRange(pt.High) /\ InRange(pt.Saturated)
    /\ pt.Low.tenths < pt.Medium.tenths
    /\ pt.Medium.tenths < pt.High.tenths
    /\ pt.High.tenths < pt.Saturated.tenths

\* C17: Validate accepts four float64 values exactly when every value lies
\* in [0, 100] and low < medium < high < saturated.
C17_ValidateAcceptsExactlyOrderedInRange ==
    validated.status = "done" =>
        (validated.err = "" <=> InRangeAndOrdered(validated.thresholds))

\* C18: loading a settings file whose thresholds, the keys it lacks taken
\* from the defaults, are outside [0, 100] or not strictly ordered fails: an
\* error and no settings.
C18_LoadRejectsInvalidThresholds ==
    (/\ loaded.status # "none"
     /\ loaded.path
     /\ settingsFile.state = "toml"
     /\ ~InRangeAndOrdered(decodeInto(DefaultSettings, settingsFile))) =>
        loaded.status = "error"

(***************************************************************************)
(* The analyses on a cluster whose client fails to list some kinds of      *)
(* object.                                                                 *)
(***************************************************************************)
ListKinds == {"nodes", "pods", "limitranges", "resourcequotas"}

\* fetchClusterResources lists the nodes, then the pods: the first call that
\* fails ends it
fetchClusterResourcesFailure(broken) ==
    IF "nodes" \in broken THEN "listing nodes"
    ELSE IF "pods" \in broken THEN "listing pods"
    ELSE "none"

\* BuildInventory lists the pods, the limit ranges, then the resource quotas
buildInventoryFailure(broken) ==
    IF "pods" \in broken THEN "listing pods"
    ELSE IF "limitranges" \in broken THEN "listing limitranges"
    ELSE IF "resourcequotas" \in broken THEN "listing resourcequotas"
    ELSE "none"

\* a node with allocatable CPU and memory
FailureNodeChoices == {n \in NodeChoices : n.Name = 1 /\ n.Allocatable = CPUAndMemory(3, 3)}

\* pods on that node that request something
FailurePodChoices ==
    {p \in PodChoices : p.NodeName = 1 /\ DOMAIN p.Containers[1].Requests # {}}

\* the cluster client starts to fail the list calls of a kind
BreakList(kind) ==
    /\ pressure.status = "none"
    /\ inventory.status = "none"
    /\ kind \notin failing
    /\ failing' = failing \cup {kind}
    /\ UNCHANGED <<nodes, pods, limitRanges, resourceQuotas, pressure, inventory, classified>>
    /\ UNCHANGED <<usages, diff, settingsFile, loaded, validated, runs>>
    /\ UNCHANGED <<podSummaries, capacity, command>>

NextFailures ==
    \/ \E node \in FailureNodeChoices : inventory.status = "none" /\ AddNode(node)
    \/ \E pod \in FailurePodChoices : inventory.status = "none" /\ AddPod(pod)
    \/ \E ns \in Namespaces : pressure.status = "none" /\ AddLimitRange(ns)
    \/ \E ns \in Namespaces : pressure.status = "none" /\ AddResourceQuota(ns)
    \/ \E kind \in ListKinds : BreakList(kind)
    \/ \E order \in MapIterationOrders(NamespacesOf(pods)) :
          CalculatePressureWithThresholds(DefaultPressureThresholds,
                                          fetchClusterResourcesFailure(failing), order)
    \/ \E sorted \in sortSlice(collectContainers(pods)) :
          BuildInventory(buildInventoryFailure(failing), sorted)

SpecFailures == Init /\ [][NextFailures]_vars

\* the number of containers, init and regular, of the pods
ContainerCount == Cardinality(ContainerPlaces)

\* C19: when the list call of the nodes or of the pods fails, the pressure
\* calculation returns the error of the first failing call and no result;
\* when that of the pods, the limit ranges or the resource quotas fails,
\* BuildInventory returns that error and no inventory; a result that is
\* returned covers every listed object.
C19_ListFailuresPropagate ==
    /\ pressure.status # "none" =>
          IF fetchClusterResourcesFailure(failing) # "none"
          THEN /\ pressure.status = "error"
               /\ pressure.err = (IF "nodes" \in failing THEN "listing nodes" ELSE "listing pods")
               /\ pressure.NodePressures = <<>> /\ pressure.NamespacePressures = <<>>
               /\ pressure.Overall = PressureUnset
          ELSE /\ pressure.status = "ok" /\ pressure.err = ""
               /\ Len(pressure.NodePressures) = Len(nodes)
               /\ {pressure.NamespacePressures[i].Namespace :
                      i \in 1..Len(pressure.NamespacePressures)} = NamespacesOf(pods)
    /\ inventory.status # "none" =>
          IF failing \cap {"pods", "limitranges", "resourcequotas"} # {}
          THEN /\ inventory.status = "error"
               /\ inventory.err \in {"listing pods", "listing limitranges",
                                     "listing resourcequotas"}
               /\ "pods" \in failing => inventory.err = "listing pods"
               /\ inventory.nsInventories = <<>> /\ inventory.allContainers = <<>>
               /\ inventory.policies = <<>>
          ELSE /\ inventory.status = "ok" /\ inventory.err = ""
               /\ Len(inventory.allContainers) = ContainerCount
               /\ Len(inventory.policies) =
                     Cardinality(policyNamespaces(limitRanges, resourceQuotas))

\* both analyses ran on a cluster with a node, pods and policies whose
\* client lists the nodes and the limit ranges but not the pods
C19_Witness ==
    /\ failing = {"pods"}
    /\ nodes # <<>> /\ pods # <<>> /\ limitRanges # <<>>
    /\ pressure.status = "error" /\ pressure.err = "listing pods"
    /\ inventory.status = "error" /\ inventory.err = "listing pods"

(***************************************************************************)
(* Concurrent calls of CalculatePressureWithThresholds.  A run keeps its   *)
(* thresholds, the lists it fetched and the result it builds in locals of  *)
(* its own; the steps of two runs interleave, and the cluster may change   *)
(* between the steps.                                                      *)
(***************************************************************************)
\* the thresholds come from the run that was called last, as they would if
\* they were kept in a variable of the package
runThresholdsOfLastCall(rs, r) ==
    LET called == {q \in RunIds : rs[q].pc # "idle"}
    IN  rs[CHOOSE q \in called : \A o \in called : o <= q].thresholds

\* the thresholds parameter of the run
runThresholds(rs, r) == rs[r].thresholds

\* a node with allocatable CPU and memory
ConcurrentNodeChoices == {n \in NodeChoices : n.Name = 1 /\ n.Allocatable = CPUAndMemory(3, 3)}

\* pods of namespace 1 on that node that request something
ConcurrentPodChoices ==
    {p \in PodChoices : p.Namespace = 1 /\ p.NodeName = 1 /\ DOMAIN p.Containers[1].Requests # {}}

\* the call: the parameters are bound and the empty ClusterPressure is made
StartCalculatePressure(r, thresholds) ==
    /\ runs[r].pc = "idle"
    /\ runs' = [runs EXCEPT ![r] = [IdleRun EXCEPT !.pc = "list nodes",
                                                   !.thresholds = thresholds]]
    /\ UNCHANGED <<nodes, pods, limitRanges, resourceQuotas, pressure, inventory, classified, failing>>
    /\ UNCHANGED <<usages, diff, settingsFile, loaded, validated>>
    /\ UNCHANGED <<podSummaries, capacity, command>>

\* fetchClusterResources: Nodes().List
ListNodes(r) ==
    /\ runs[r].pc = "list nodes"
    /\ runs' = IF "nodes" \in failing
               THEN [runs EXCEPT ![r].pc = "done",
                                 ![r].pressure = pressureError("listing nodes")]
               ELSE [runs EXCEPT ![r].pc = "list pods", ![r].nodes = nodes]
    /\ UNCHANGED <<nodes, pods, limitRanges, resourceQuotas, pressure, inventory, classified, failing>>
    /\ UNCHANGED <<usages, diff, settingsFile, loaded, validated>>
    /\ UNCHANGED <<podSummaries, capacity, command>>

\* fetchClusterResources: Pods(namespace).List
ListPods(r) ==
    /\ runs[r].pc = "list pods"
    /\ runs' = IF "pods" \in failing
               THEN [runs EXCEPT ![r].pc = "done",
                                 ![r].pressure = pressureError("listing pods")]
               ELSE [runs EXCEPT ![r].pc = "node pressures", ![r].pods = pods]
    /\ UNCHANGED <<nodes, pods, limitRanges, resourceQuotas, pressure, inventory, classified, failing>>
    /\ UNCHANGED <<usages, diff, settingsFile, loaded, validated>>
    /\ UNCHANGED <<podSummaries, capacity, command>>

\* calculateNodePressures(pressure, nodes, pods, thresholds)
StepNodePressures(r) ==
    /\ runs[r].pc = "node pressures"
    /\ runs' = [runs EXCEPT
                  ![r].pc = "namespace pressures",
                  ![r].pressure.NodePressures =
                      calculateNodePressures(runs[r].nodes, runs[r].pods, runThresholds(runs, r))]
    /\ UNCHANGED <<nodes, pods, limitRanges, resourceQuotas, pressure, inventory, classified, failing>>
    /\ UNCHANGED <<usages, diff, settingsFile, loaded, validated>>
    /\ UNCHANGED <<podSummaries, capacity, command>>

\* calculateNamespacePressures(pressure, nodes, pods, thresholds)
StepNamespacePressures(r, order) ==
    /\ runs[r].pc = "namespace pressures"
    /\ runs' = [runs EXCEPT
                  ![r].pc = "cluster pressure",
                  ![r].pressure.NamespacePressures =
                      calculateNamespacePressures(runs[r].nodes, runs[r].pods,
                                                  runThresholds(runs, r), order)]
    /\ UNCHANGED <<nodes, pods, limitRanges, resourceQuotas, pressure, inventory, classified, failing>>
    /\ UNCHANGED <<usages, diff, settingsFile, loaded, validated>>
    /\ UNCHANGED <<podSummaries, capacity, command>>

\* calculateClusterPressure(pressure, nodes, pods), and the return
StepClusterPressure(r) ==
    /\ runs[r].pc = "cluster pressure"
    /\ LET totalAllocatable == getTotalAllocatable(runs[r].nodes)
           totalRequested == getTotalRequested(runs[r].pods)
       IN  runs' = [runs EXCEPT
                      ![r].pc = "done",
                      ![r].pressure.status = "ok",
                      ![r].pressure.thresholds = runThresholds(runs, r),
                      ![r].pressure.Overall = clusterOverall(runs[r].pressure.NodePressures),
                      ![r].pressure.CPUUtilization =
                          clusterUtilization(totalRequested.CPU, totalAllocatable.CPU),
                      ![r].pressure.MemUtilization =
                          clusterUtilization(totalRequested.Memory, totalAllocatable.Memory)]
    /\ UNCHANGED <<nodes, pods, limitRanges, resourceQuotas, pressure, inventory, classified, failing>>
    /\ UNCHANGED <<usages, diff, settingsFile, loaded, validated>>
    /\ UNCHANGED <<podSummaries, capacity, command>>

NextConcurrent ==
    \/ \E node \in ConcurrentNodeChoices : AddNode(node)
    \/ \E pod \in ConcurrentPodChoices : AddPod(pod)
    \/ \E r \in RunIds, thresholds \in {DefaultPressureThresholds, CustomPressureThresholds} :
          StartCalculatePressure(r, thresholds)
    \/ \E r \in RunIds : ListNodes(r)
    \/ \E r \in RunIds : ListPods(r)
    \/ \E r \in RunIds : StepNodePressures(r)
    \/ \E r \in RunIds : \E order \in MapIterationOrders(NamespacesOf(runs[r].pods)) :
          StepNamespacePressures(r, order)
    \/ \E r \in RunIds : StepClusterPressure(r)

SpecConcurrent == Init /\ [][NextConcurrent]_vars

\* C20: under every interleaving of two runs, the result of a run is a
\* result of the calculation alone on the lists the run fetched with the
\* thresholds the run was called with.
C20_RunsDoNotInterfere ==
    \A r \in RunIds :
        runs[r].pc = "done" =>
            \E order \in MapIterationOrders(NamespacesOf(runs[r].pods)) :
                runs[r].pressure =
                    pressureResult(runs[r].nodes, runs[r].pods, runs[r].thresholds, order)

\* run 1 is between two of its steps and run 2, called with other
\* thresholds, has ended; on the same lists the two classify the node
\* differently
C20_Witness ==
    /\ runs[1].pc = "cluster pressure"
    /\ runs[2].pc = "done"
    /\ runs[1].thresholds # runs[2].thresholds
    /\ runs[1].nodes # <<>> /\ runs[1].nodes = runs[2].nodes
    /\ runs[1].pods # <<>> /\ runs[1].pods = runs[2].pods
    /\ runs[1].pressure.NodePressures # runs[2].pressure.NodePressures

(***************************************************************************)
(* The pod summaries (pkg/resources/pod_summary.go).                       *)
(***************************************************************************)
RECURSIVE SumContainerLimits(_, _)
\* the loop over the containers of a pod: a present limit is added
SumContainerLimits(containers, r) ==
    IF containers = <<>> THEN 0
    ELSE (IF r \in DOMAIN Head(containers).Limits THEN Head(containers).Limits[r] ELSE 0)
         + SumContainerLimits(Tail(containers), r)

\* podMap[key] after the loops over pod.Spec.Containers and
\* pod.Spec.InitContainers (a namespace holds one pod of a name): the usage
\* stays the zero quantity
podResourceSummary(pod) ==
    [Namespace |-> pod.Namespace, PodName |-> pod.Name,
     CPUUsage |-> 0, MemUsage |-> 0,
     CPURequest |-> SumContainerRequests(pod.Containers, "cpu")
                    + SumContainerRequests(pod.InitContainers, "cpu"),
     MemRequest |-> SumContainerRequests(pod.Containers, "memory")
                    + SumContainerRequests(pod.InitContainers, "memory"),
     CPULimit |-> SumContainerLimits(pod.Containers, "cpu")
                  + SumContainerLimits(pod.InitContainers, "cpu"),
     MemLimit |-> SumContainerLimits(pod.Containers, "memory")
                  + SumContainerLimits(pod.InitContainers, "memory")]

\* the less function of BuildPodSummaries
summaryLess(a, b) ==
    IF a.Namespace = b.Namespace THEN a.PodName < b.PodName ELSE a.Namespace < b.Namespace

RECURSIVE sortSummaries(_)
\* the summaries of the map, sorted: no two have the same namespace and pod
\* name, so whatever order the map yields them in the sorted list is one
sortSummaries(seq) ==
    IF seq = <<>> THEN <<>>
    ELSE LET least == CHOOSE i \in 1..Len(seq) :
                          \A j \in 1..Len(seq) : ~summaryLess(seq[j], seq[i])
         IN  <<seq[least]>> \o sortSummaries(RemoveAt(seq, least))

\* what BuildPodSummaries returns when the pods are listed
buildPodSummaries(podList) ==
    sortSummaries([i \in 1..Len(podList) |-> podResourceSummary(podList[i])])

\* whether usageMap has the key namespace/pod/container
usageMapHas(usageList, ns, pod, container) ==
    \E i \in 1..Len(usageList) :
        /\ usageList[i].Namespace = ns
        /\ usageList[i].PodName = pod
        /\ usageList[i].ContainerName = container

RECURSIVE sumUsage(_, _, _, _)
\* the loop over pod.Spec.Containers of the pod listed again: the usage of
\* every container the map has is added; field is "CPUUsage" or "MemUsage"
sumUsage(containers, usageList, summary, field) ==
    IF containers = <<>> THEN 0
    ELSE LET key == [Namespace |-> summary.Namespace, PodName |-> summary.PodName,
                     ContainerName |-> Head(containers).Name]
         IN  (IF usageMapHas(usageList, key.Namespace, key.PodName, key.ContainerName)
              THEN usageMapAt(usageList, key)[field] ELSE 0)
             + sumUsage(Tail(containers), usageList, summary, field)

\* pods.Items of the List call with the field selector metadata.name
podsNamed(podList, ns, name) ==
    SelectSeq(podList, LAMBDA p : p.Namespace = ns /\ p.Name = name)

\* a summary after the second loop of BuildPodSummariesWithUsage; listed
\* tells whether the List call for the summary's pod succeeded
summaryWithUsage(summary, podList, usageList, listed) ==
    LET items == podsNamed(podList, summary.Namespace, summary.PodName)
    IN  IF listed /\ Len(items) > 0
        THEN [summary EXCEPT
                 !.CPUUsage = @ + sumUsage(items[1].Containers, usageList, summary, "CPUUsage"),
                 !.MemUsage = @ + sumUsage(items[1].Containers, usageList, summary, "MemUsage")]
        ELSE summary

\* BuildPodSummariesWithUsage that gives up when the metrics cannot be read
podSummariesWithUsageMetricsFatal(podList, items, broken, relisted) ==
    IF "pods" \in broken
    THEN [NoPodSummaries EXCEPT !.status = "error", !.err = "listing pods", !.withUsage = TRUE]
    ELSE IF "metrics" \in broken
    THEN [NoPodSummaries EXCEPT !.status = "error", !.err = "getting pod metrics",
                                !.withUsage = TRUE]
    ELSE [status |-> "ok", err |-> "", withUsage |-> TRUE, metrics |-> TRUE,
          summaries |-> [i \in 1..Len(podList) |->
                            summaryWithUsage(buildPodSummaries(podList)[i], podList,
                                             extractContainerUsages(items), i \in relisted)]]

\* what BuildPodSummariesWithUsage returns: items are the records of the
\* metrics API, broken the calls that fail, relisted the summaries whose pod
\* the second List call returns
podSummariesWithUsage(podList, items, broken, relisted) ==
    IF "pods" \in broken
    THEN [NoPodSummaries EXCEPT !.status = "error", !.err = "listing pods", !.withUsage = TRUE]
    ELSE IF "metrics" \in broken
    THEN [status |-> "ok", err |-> "", withUsage |-> TRUE, metrics |-> FALSE,
          summaries |-> buildPodSummaries(podList)]
    ELSE [status |-> "ok", err |-> "", withUsage |-> TRUE, metrics |-> TRUE,
          summaries |-> [i \in 1..Len(podList) |->
                            summaryWithUsage(buildPodSummaries(podList)[i], podList,
                                             extractContainerUsages(items), i \in relisted)]]

\* what BuildPodSummaries returns
podSummariesWithoutUsage(podList, broken) ==
    IF "pods" \in broken
    THEN [NoPodSummaries EXCEPT !.status = "error", !.err = "listing pods"]
    ELSE [status |-> "ok", err |-> "", withUsage |-> FALSE, metrics |-> FALSE,
          summaries |-> buildPodSummaries(podList)]

\* the calls of the pod summaries that may fail
SummaryCallKinds == {"pods", "metrics"}

\* a call of BuildPodSummaries
BuildPodSummaries ==
    /\ podSummaries.status = "none"
    /\ podSummaries' = podSummariesWithoutUsage(pods, failing)
    /\ UNCHANGED <<nodes, pods, limitRanges, resourceQuotas, pressure, inventory, classified, failing>>
    /\ UNCHANGED <<usages, diff, settingsFile, loaded, validated, runs>>
    /\ UNCHANGED <<capacity, command>>

\* a call of BuildPodSummariesWithUsage
BuildPodSummariesWithUsage(relisted) ==
    /\ podSummaries.status = "none"
    /\ podSummaries' = podSummariesWithUsage(pods, usages, failing, relisted)
    /\ UNCHANGED <<nodes, pods, limitRanges, resourceQuotas, pressure, inventory, classified, failing>>
    /\ UNCHANGED <<usages, diff, settingsFile, loaded, validated, runs>>
    /\ UNCHANGED <<capacity, command>>

NextPodSummaries ==
    \/ podSummaries.status = "none" /\ \E pod \in InventoryPodChoices : AddInventoryPod(pod)
    \/ podSummaries.status = "none" /\ \E u \in UsageChoices : AddUsage(u)
    \/ podSummaries.status = "none" /\ \E kind \in SummaryCallKinds : BreakList(kind)
    \/ BuildPodSummaries
    \/ \E relisted \in SUBSET (1..Len(pods)) : BuildPodSummariesWithUsage(relisted)

SpecPodSummaries == Init /\ [][NextPodSummaries]_vars

(***************************************************************************)
(* Properties of the pod summaries.                                        *)
(***************************************************************************)
\* the containers of pod i, init and regular, as <<pod index, TRUE for an
\* init container, container index>>
PodContainerPlaces(i) ==
    {<<i, TRUE, k>> : k \in 1..Len(pods[i].InitContainers)}
    \cup {<<i, FALSE, k>> : k \in 1..Len(pods[i].Containers)}

RECURSIVE SumOfPlaces(_, _, _)
\* the quantity of resource r in the Requests or Limits of the containers at
\* the places S, summed
SumOfPlaces(S, field, r) ==
    IF S = {} THEN 0
    ELSE LET pl == CHOOSE x \in S : TRUE
             c == IF pl[2] THEN pods[pl[1]].InitContainers[pl[3]] ELSE pods[pl[1]].Containers[pl[3]]
         IN  QuantityOf(c[field], r) + SumOfPlaces(S \ {pl}, field, r)

\* the summary holds the requests and limits of pod i and no usage
SummarisesWithoutUsage(summary, i) ==
    /\ summary.Namespace = pods[i].Namespace
    /\ summary.PodName = pods[i].Name
    /\ summary.CPURequest = SumOfPlaces(PodContainerPlaces(i), "Requests", "cpu")
    /\ summary.MemRequest = SumOfPlaces(PodContainerPlaces(i), "Requests", "memory")
    /\ summary.CPULimit = SumOfPlaces(PodContainerPlaces(i), "Limits", "cpu")
    /\ summary.MemLimit = SumOfPlaces(PodContainerPlaces(i), "Limits", "memory")
    /\ summary.CPUUsage = 0
    /\ summary.MemUsage = 0

\* C21: when the metrics cannot be read and the pods can be listed,
\* BuildPodSummariesWithUsage returns no error and exactly what
\* BuildPodSummaries returns for the same pods: one summary per pod with the
\* pod's summed requests and limits and zero usage.
C21_SummariesSurviveMissingMetrics ==
    (/\ podSummaries.status # "none"
     /\ podSummaries.withUsage
     /\ "metrics" \in failing
     /\ "pods" \notin failing) =>
        /\ podSummaries.status = "ok"
        /\ podSummaries.err = ""
        /\ podSummaries.summaries = podSummariesWithoutUsage(pods, failing).summaries
        /\ Len(podSummaries.summaries) = Len(pods)
        /\ \A i \in 1..Len(pods) :
              \E k \in 1..Len(podSummaries.summaries) :
                  SummarisesWithoutUsage(podSummaries.summaries[k], i)

\* the metrics fail for a pod of an init container and a container, with
\* requests, limits and a usage record that cannot be read: the summary has
\* the requests and limits of both and no usage
C21_Witness ==
    /\ podSummaries.status = "ok"
    /\ podSummaries.withUsage
    /\ "metrics" \in failing
    /\ Len(usages) > 0
    /\ Len(pods) = 2
    /\ \E k \in 1..Len(podSummaries.summaries) :
          /\ podSummaries.summaries[k].Namespace = usages[1].Namespace
          /\ podSummaries.summaries[k].PodName = usages[1].PodName
          /\ podSummaries.summaries[k].MemRequest = 3
          /\ podSummaries.summaries[k].MemLimit = 7
          /\ podSummaries.summaries[k].CPUUsage = 0

(***************************************************************************)
(* Further properties of the pressure analysis.                            *)
(***************************************************************************)
\* C22: for a cluster without nodes and without pods, whose List calls
\* succeed, the pressure calculation returns a result with no node pressures
\* and Overall LOW.
C22_EmptyClusterIsLow ==
    (pressure.status = "ok" /\ nodes = <<>> /\ pods = <<>>) =>
        /\ pressure.NodePressures = <<>>
        /\ pressure.Overall = PressureLow

(***************************************************************************)
(* Further properties of the inventory.                                    *)
(***************************************************************************)
\* C23: a container with a CPU request and no memory request is counted in
\* ContainersMissingAnyRequests: the count of a namespace covers every
\* container of the namespace that has no memory request, the ones with only
\* a CPU request as much as the ones without any request.
C23_CPUOnlyContainerCountsAsMissing ==
    inventory.status = "ok" =>
        \A i \in 1..Len(inventory.nsInventories) :
            LET inv == inventory.nsInventories[i]
            IN  inv.ContainersMissingAnyRequests >=
                    Cardinality({pl \in ContainersIn(inv.Namespace) :
                                     "memory" \notin DOMAIN ContainerAt(pl).Requests})

(***************************************************************************)
(* The pressure analysis of nodes that report conditions.                  *)
(***************************************************************************)
\* nodes with allocatable CPU and memory whose Status.Conditions hold the
\* condition MemoryPressure, True or False
ConditionNodeChoices ==
    [Name : NodeNames, Allocatable : {CPUAndMemory(3, 3)}, MemoryPressure : BOOLEAN]

NextConditions ==
    \/ \E node \in ConditionNodeChoices : AddNode(node)
    \/ \E pod \in FailurePodChoices : AddPod(pod)
    \/ \E thresholds \in ThresholdChoices, failure \in {"none", "listing nodes", "listing pods"},
          order \in MapIterationOrders(NamespacesOf(pods)) :
            CalculatePressureWithThresholds(thresholds, failure, order)

SpecConditions == Init /\ [][NextConditions]_vars

\* C24: a node whose condition MemoryPressure is True is reported with
\* memory pressure HIGH or SATURATED, whether or not pods are scheduled on it.
C24_MemoryPressureConditionIsReported ==
    pressure.status = "ok" =>
        \A i \in 1..Len(nodes) :
            nodes[i].MemoryPressure =>
                \E k \in 1..Len(pressure.NodePressures) :
                    /\ pressure.NodePressures[k].NodeName = nodes[i].Name
                    /\ pressure.NodePressures[k].MemPressure \in {PressureHigh, PressureSaturated}

(***************************************************************************)
(* Saving the settings and the `config` commands (pkg/config, cmd).        *)
(***************************************************************************)
GeneralKeys == {"output", "namespace", "context", "top", "color"}

\* an encoder that leaves out the keys whose value is the zero value of its
\* type (omitempty)
encodeSettingsOmitEmpty(general, thresholds) ==
    LET all == [k \in GeneralKeys |->
                    CASE k = "output" -> general.Output
                      [] k = "namespace" -> general.Namespace
                      [] k = "context" -> general.Context
                      [] k = "top" -> general.Top
                      [] k = "color" -> general.Color]
        kept == {k \in GeneralKeys :
                    CASE k = "top" -> all[k] # 0
                      [] k = "color" -> all[k]
                      [] OTHER -> all[k] # ""}
    IN  [state |-> "toml",
         general |-> [k \in kept |-> all[k]],
         thresholds |-> [k \in ThresholdKeys |->
                            CASE k = "low" -> thresholds.Low
                              [] k = "medium" -> thresholds.Medium
                              [] k = "high" -> thresholds.High
                              [] k = "saturated" -> thresholds.Saturated]]

\* toml.NewEncoder(file).Encode(settings): every field is written under the
\* key of its tag, the thresholds in the table [pressure_thresholds]
encodeSettings(general, thresholds) ==
    [state |-> "toml",
     general |-> [k \in GeneralKeys |->
                    CASE k = "output" -> general.Output
                      [] k = "namespace" -> general.Namespace
                      [] k = "context" -> general.Context
                      [] k = "top" -> general.Top
                      [] k = "color" -> general.Color],
     thresholds |-> [k \in ThresholdKeys |->
                        CASE k = "low" -> thresholds.Low
                          [] k = "medium" -> thresholds.Medium
                          [] k = "high" -> thresholds.High
                          [] k = "saturated" -> thresholds.Saturated]]

\* what SaveSettings does to the file and the error it returns: the
\* thresholds are validated before the path is looked up and the file created
saveSettings(home, general, thresholds, file) ==
    IF Validate(thresholds) # "" THEN [err |-> Validate(thresholds), file |-> file]
    ELSE IF ~home THEN [err |-> "determining config path", file |-> file]
    ELSE [err |-> "", file |-> encodeSettings(general, thresholds)]

\* the token fmt.Sscanf takes from the head of a value of the command line
\* under %d: the leading digits, "" when the value starts with none
intToken(value) ==
    CASE value = "5" -> "5"
      [] value = "5x" -> "5"
      [] value = "20" -> "20"
      [] OTHER -> ""

\* the token it takes under %f: "NaN" in any case of its letters, else the
\* leading digits
floatToken(value) ==
    CASE value \in {"0", "25", "50", "75", "90", "100", "150", "NaN"} -> value
      [] OTHER -> ""

\* strconv.ParseInt of the token: no number in an empty token
scanInt(value) ==
    CASE intToken(value) = "5" -> [ok |-> TRUE, val |-> 5]
      [] intToken(value) = "20" -> [ok |-> TRUE, val |-> 20]
      [] OTHER -> [ok |-> FALSE, val |-> 0]

\* strconv.ParseFloat of the token, in tenths of a percent
scanFloat(value) ==
    CASE floatToken(value) = "0" -> [ok |-> TRUE, val |-> Finite(0)]
      [] floatToken(value) = "25" -> [ok |-> TRUE, val |-> Finite(250)]
      [] floatToken(value) = "50" -> [ok |-> TRUE, val |-> Finite(500)]
      [] floatToken(value) = "75" -> [ok |-> TRUE, val |-> Finite(750)]
      [] floatToken(value) = "90" -> [ok |-> TRUE, val |-> Finite(900)]
      [] floatToken(value) = "100" -> [ok |-> TRUE, val |-> Finite(1000)]
      [] floatToken(value) = "150" -> [ok |-> TRUE, val |-> Finite(1500)]
      [] floatToken(value) = "NaN" -> [ok |-> TRUE, val |-> NaN]
      [] OTHER -> [ok |-> FALSE, val |-> Finite(0)]

\* the keys of `config set`, the field of PressureThresholds behind a
\* threshold key
ThresholdField ==
    [k \in {"pressure_thresholds.low", "pressure_thresholds.medium",
            "pressure_thresholds.high", "pressure_thresholds.saturated"} |->
        CASE k = "pressure_thresholds.low" -> "Low"
          [] k = "pressure_thresholds.medium" -> "Medium"
          [] k = "pressure_thresholds.high" -> "High"
          [] k = "pressure_thresholds.saturated" -> "Saturated"]

\* the switch of runConfigSet: the settings with the key updated, or the
\* error it returns
updateSetting(settings, key, value) ==
    CASE key = "output" ->
            [err |-> "", general |-> [settings.general EXCEPT !.Output = value],
             thresholds |-> settings.thresholds]
      [] key = "namespace" ->
            [err |-> "", general |-> [settings.general EXCEPT !.Namespace = value],
             thresholds |-> settings.thresholds]
      [] key = "context" ->
            [err |-> "", general |-> [settings.general EXCEPT !.Context = value],
             thresholds |-> settings.thresholds]
      [] key = "top" ->
            IF scanInt(value).ok
            THEN [err |-> "", general |-> [settings.general EXCEPT !.Top = scanInt(value).val],
                  thresholds |-> settings.thresholds]
            ELSE [err |-> "invalid value for 'top'", general |-> settings.general,
                  thresholds |-> settings.thresholds]
      [] key \in DOMAIN ThresholdField ->
            IF scanFloat(value).ok
            THEN [err |-> "", general |-> settings.general,
                  thresholds |-> [settings.thresholds EXCEPT
                                     ![ThresholdField[key]] = scanFloat(value).val]]
            ELSE [err |-> "invalid value for pressure threshold", general |-> settings.general,
                  thresholds |-> settings.thresholds]
      [] key = "color" ->
            [err |-> "", general |-> [settings.general EXCEPT
                                         !.Color = value \in {"true", "1", "yes"}],
             thresholds |-> settings.thresholds]
      [] OTHER ->
            [err |-> "unknown config key", general |-> settings.general,
             thresholds |-> settings.thresholds]

\* runConfigSet that starts from the default settings instead of the loaded
\* ones
runConfigSetFromDefaults(home, file, key, value) ==
    LET updated == updateSetting(loadSettings(FALSE, file), key, value)
        saved == saveSettings(home, updated.general, updated.thresholds, file)
    IN  IF loadSettings(home, file).status = "error"
        THEN [err |-> "loading config", file |-> file]
        ELSE IF updated.err # "" THEN [err |-> updated.err, file |-> file]
        ELSE IF saved.err # "" THEN [err |-> "saving config", file |-> file]
        ELSE saved

\* runConfigSet: the error it returns and the file it leaves
runConfigSet(home, file, key, value) ==
    LET updated == updateSetting(loadSettings(home, file), key, value)
        saved == saveSettings(home, updated.general, updated.thresholds, file)
    IN  IF loadSettings(home, file).status = "error"
        THEN [err |-> "loading config", file |-> file]
        ELSE IF updated.err # "" THEN [err |-> updated.err, file |-> file]
        ELSE IF saved.err # "" THEN [err |-> "saving config", file |-> file]
        ELSE saved

\* runConfigReset: the default settings are saved
runConfigReset(home, file) ==
    IF saveSettings(home, DefaultGeneral, DefaultSettings, file).err # ""
    THEN [err |-> "saving config", file |-> file]
    ELSE saveSettings(home, DefaultGeneral, DefaultSettings, file)

\* the key and the value of a `config set` command: every key with values
\* it takes and values it refuses, and a key that does not exist
SetChoices ==
    ({"output"} \X {"json", "text"})
    \cup ({"namespace"} \X {"prod", ""})
    \cup ({"context"} \X {"minikube", ""})
    \cup ({"top"} \X {"5", "5x", "20", "abc"})
    \cup ({"color"} \X {"true", "no"})
    \cup ({"pressure_thresholds.low"} \X {"0", "25", "50", "75", "NaN", "150", "abc"})
    \cup ({"pressure_thresholds.medium"} \X {"25", "50", "75", "90", "150"})
    \cup ({"pressure_thresholds.high"} \X {"50", "75", "90", "100", "abc"})
    \cup ({"pressure_thresholds.saturated"} \X {"75", "90", "100", "150"})
    \cup ({"colour"} \X {"true"})

\* the settings files a user may have written before the commands run: no
\* TOML, an empty file, and files that set high to 90, to 30 (below the
\* default medium) or to 150
ConfigFileChoices ==
    {f \in FileChoices :
        \/ f.state = "garbled"
        \/ f.thresholds = <<>>
        \/ DOMAIN f.thresholds = {"high"}
           /\ f.thresholds["high"] \in {Finite(900), Finite(300), Finite(1500)}}

\* cobrak config set <key> <value>
ConfigSet(home, key, value) ==
    /\ LET result == runConfigSet(home, settingsFile, key, value)
       IN  /\ command' = [NoCommand EXCEPT !.kind = "set", !.key = key, !.home = home,
                                           !.err = result.err]
           /\ settingsFile' = result.file
    /\ UNCHANGED <<nodes, pods, limitRanges, resourceQuotas, pressure, inventory, classified, failing>>
    /\ UNCHANGED <<usages, diff, loaded, validated, runs>>
    /\ UNCHANGED <<podSummaries, capacity>>

\* cobrak config reset
ConfigReset(home) ==
    /\ command' = [NoCommand EXCEPT !.kind = "reset", !.home = home,
                                    !.err = runConfigReset(home, settingsFile).err]
    /\ settingsFile' = runConfigReset(home, settingsFile).file
    /\ UNCHANGED <<nodes, pods, limitRanges, resourceQuotas, pressure, inventory, classified, failing>>
    /\ UNCHANGED <<usages, diff, loaded, validated, runs>>
    /\ UNCHANGED <<podSummaries, capacity>>

NextConfig ==
    \/ command.kind = "none" /\ \E file \in ConfigFileChoices : WriteSettingsFile(file)
    \/ \E home \in BOOLEAN, kv \in SetChoices : ConfigSet(home, kv[1], kv[2])
    \/ \E home \in BOOLEAN : ConfigReset(home)

SpecConfig == Init /\ [][NextConfig]_vars

\* the settings handed to SaveSettings: the general fields changed or not,
\* with thresholds of the defaults, of the tests, at the bounds, unordered,
\* above 100 and with NaN
GeneralChoices ==
    [Output : {"text", "json"}, Namespace : {"", "prod"}, Context : {"", "minikube"},
     Top : {20, 0, 50}, Color : BOOLEAN]

SaveThresholdChoices ==
    {DefaultSettings,
     [Low |-> Finite(350), Medium |-> Finite(600), High |-> Finite(820), Saturated |-> Finite(980)],
     [Low |-> Finite(0), Medium |-> Finite(1), High |-> Finite(999), Saturated |-> Finite(1000)],
     [Low |-> Finite(500), Medium |-> Finite(900), High |-> Finite(900), Saturated |-> Finite(1000)],
     [Low |-> Finite(500), Medium |-> Finite(750), High |-> Finite(900), Saturated |-> Finite(1500)],
     [Low |-> NaN, Medium |-> Finite(750), High |-> Finite(900), Saturated |-> Finite(1000)]}

\* a call of SaveSettings
SaveSettings(home, general, thresholds) ==
    /\ command.kind = "none"
    /\ loaded.status = "none"
    /\ command' = [kind |-> "save", key |-> "", home |-> home,
                   err |-> saveSettings(home, general, thresholds, settingsFile).err,
                   general |-> general, thresholds |-> thresholds]
    /\ settingsFile' = saveSettings(home, general, thresholds, settingsFile).file
    /\ UNCHANGED <<nodes, pods, limitRanges, resourceQuotas, pressure, inventory, classified, failing>>
    /\ UNCHANGED <<usages, diff, loaded, validated, runs>>
    /\ UNCHANGED <<podSummaries, capacity>>

NextSaveLoad ==
    \/ command.kind = "none" /\ \E file \in ConfigFileChoices : WriteSettingsFile(file)
    \/ \E home \in BOOLEAN, general \in GeneralChoices, thresholds \in SaveThresholdChoices :
          SaveSettings(home, general, thresholds)
    \/ command.kind = "save" /\ \E home \in BOOLEAN : LoadSettings(home)

SpecSaveLoad == Init /\ [][NextSaveLoad]_vars

StoredThresholds(file) == decodeInto(DefaultSettings, file)

\* there is no settings file, or one whose thresholds are in [0, 100] and in
\* strict order
AbsentOrValid(file) ==
    \/ file.state = "absent"
    \/ file.state = "toml" /\ InRangeAndOrdered(StoredThresholds(file))

\* C26: a `config set` or `config reset` command, whatever its key and value
\* and whether it succeeds or fails, takes a state with no settings file or a
\* valid one to such a state again: the stored thresholds stay in [0, 100]
\* and in strict order along every sequence of commands.
C26_CommandsKeepStoredThresholdsValid ==
    [][(command'.kind \in {"set", "reset"} /\ AbsentOrValid(settingsFile))
          => AbsentOrValid(settingsFile')]_vars

\* the settings LoadSettings reads from the file, as the values of the keys
\* of `config set`
LoadedValue(file, key) ==
    LET settings == loadSettings(TRUE, file)
    IN  CASE key = "output" -> settings.general.Output
          [] key = "namespace" -> settings.general.Namespace
          [] key = "context" -> settings.general.Context
          [] key = "top" -> settings.general.Top
          [] key = "color" -> settings.general.Color
          [] key \in DOMAIN ThresholdField -> settings.thresholds[ThresholdField[key]]

SetKeys == GeneralKeys \cup DOMAIN ThresholdField

\* C27: a `config set` command that fails leaves the settings file exactly
\* as it was, and one that succeeds leaves a file from which every key but
\* the named one loads with the value it loaded with before.
C27_SetChangesOnlyTheNamedKey ==
    [][command'.kind = "set" =>
          IF command'.err # ""
          THEN settingsFile' = settingsFile
          ELSE /\ loadSettings(TRUE, settingsFile').status = "ok"
               /\ \A key \in SetKeys \ {command'.key} :
                     LoadedValue(settingsFile', key) = LoadedValue(settingsFile, key)]_vars

\* a stored file with settings changed from the defaults, among them high at
\* 75, after a set of medium to 90 that was refused, and after a set of
\* output that succeeded
C27_Witness ==
    /\ settingsFile.state = "toml"
    /\ command.kind = "set"
    /\ LoadedValue(settingsFile, "top") = 5
    /\ LoadedValue(settingsFile, "namespace") = "prod"
    /\ LoadedValue(settingsFile, "color") = FALSE
    /\ StoredThresholds(settingsFile) =
          [Low |-> Finite(250), Medium |-> Finite(500), High |-> Finite(750),
           Saturated |-> Finite(900)]
    /\ \/ command.key = "pressure_thresholds.medium" /\ command.err = "saving config"
       \/ command.key = "output" /\ command.err = "" /\ LoadedValue(settingsFile, "output") = "json"

\* the `config set` commands of the threshold keys
ThresholdSetChoices == {kv \in SetChoices : kv[1] \in DOMAIN ThresholdField}

NextThresholdSets ==
    \/ command.kind = "none" /\ \E file \in ConfigFileChoices : WriteSettingsFile(file)
    \/ \E kv \in ThresholdSetChoices : ConfigSet(TRUE, kv[1], kv[2])

SpecThresholdSets == Init /\ [][NextThresholdSets]_vars

\* the threshold values these commands can store and that lie in [0, 100]
ThresholdGrid == {v \in {scanFloat(kv[2]).val : kv \in ThresholdSetChoices} : InRange(v)}

\* the valid threshold configurations over these values
ValidConfigurations ==
    {t \in [Low : ThresholdGrid, Medium : ThresholdGrid, High : ThresholdGrid,
            Saturated : ThresholdGrid] : InRangeAndOrdered(t)}

\* the valid configurations one successful `config set` of a threshold key
\* stores when the file holds the configuration t
SetSuccessors(t) ==
    LET file == encodeSettings(DefaultGeneral, t)
        results == {runConfigSet(TRUE, file, kv[1], kv[2]) : kv \in ThresholdSetChoices}
    IN  {StoredThresholds(r.file) : r \in {x \in results : x.err = ""}}
        \cap ValidConfigurations

RECURSIVE SetClosure(_)
\* the configurations reached from those of S by successful sets through
\* valid configurations only
SetClosure(S) ==
    LET next == S \cup UNION {SetSuccessors(t) : t \in S}
    IN  IF next = S THEN S ELSE SetClosure(next)

\* C28: from every stored valid threshold configuration every valid
\* configuration is reached by a finite sequence of successful single-key
\* `config set` commands whose intermediate stored configurations are valid.
C28_EveryValidConfigurationReachable ==
    (settingsFile.state = "toml" /\ InRangeAndOrdered(StoredThresholds(settingsFile))) =>
        ValidConfigurations \subseteq SetClosure({StoredThresholds(settingsFile)})

\* the configuration 0 < 25 < 50 < 75, every key of which differs from the
\* defaults, stored by the last of four successful sets
C28_Witness ==
    /\ settingsFile.state = "toml"
    /\ StoredThresholds(settingsFile) =
          [Low |-> Finite(0), Medium |-> Finite(250), High |-> Finite(500),
           Saturated |-> Finite(750)]
    /\ command.kind = "set"
    /\ command.key = "pressure_thresholds.saturated"
    /\ command.err = ""
    /\ Cardinality(ValidConfigurations) = 15

(***************************************************************************)
(* The cluster capacity summary (pkg/capacity/analyzer.go).                *)
(***************************************************************************)
RECURSIVE SumCapacity(_, _)
\* the loop over nodes.Items adding node.Status.Capacity
SumCapacity(nodeList, r) ==
    IF nodeList = <<>> THEN 0
    ELSE QuantityOf(Head(nodeList).Capacity, r) + SumCapacity(Tail(nodeList), r)

RECURSIVE SumSummaryPods(_, _, _)
\* the loop over pods.Items: the Requests or Limits of pod.Spec.Containers
\* and of pod.Spec.InitContainers are added
SumSummaryPods(podList, field, r) ==
    IF podList = <<>> THEN 0
    ELSE (IF field = "Requests"
          THEN SumContainerRequests(Head(podList).Containers, r)
               + SumContainerRequests(Head(podList).InitContainers, r)
          ELSE SumContainerLimits(Head(podList).Containers, r)
               + SumContainerLimits(Head(podList).InitContainers, r))
         + SumSummaryPods(Tail(podList), field, r)

\* what AnalyzeSummary returns: the summary, or nil and the error of the
\* first List call that fails
analyzeSummary(nodeList, podList, failure) ==
    IF failure # "none" THEN [NoCapacity EXCEPT !.status = "error", !.err = failure]
    ELSE [status |-> "ok", err |-> "",
          summary |-> [TotalCPUCapacity |-> SumCapacity(nodeList, "cpu"),
                       TotalCPUAllocatable |-> SumAllocatable(nodeList, "cpu"),
                       TotalMemCapacity |-> SumCapacity(nodeList, "memory"),
                       TotalMemAllocatable |-> SumAllocatable(nodeList, "memory"),
                       TotalCPURequests |-> SumSummaryPods(podList, "Requests", "cpu"),
                       TotalCPULimits |-> SumSummaryPods(podList, "Limits", "cpu"),
                       TotalMemRequests |-> SumSummaryPods(podList, "Requests", "memory"),
                       TotalMemLimits |-> SumSummaryPods(podList, "Limits", "memory")]]

\* nodes with capacity and allocatable
SummaryNodeChoices ==
    [Name : NodeNames, Allocatable : {CPUAndMemory(3, 3)}, Capacity : {CPUAndMemory(4, 4)}]

\* pods on node 1, with and without init containers
SummaryPodChoices == {p \in PodChoices : p.NodeName = 1}

\* a call of AnalyzeSummary for all namespaces
AnalyzeSummary(failure) ==
    /\ capacity.status = "none"
    /\ capacity' = analyzeSummary(nodes, pods, failure)
    /\ UNCHANGED <<nodes, pods, limitRanges, resourceQuotas, pressure, inventory, classified, failing>>
    /\ UNCHANGED <<usages, diff, settingsFile, loaded, validated, runs>>
    /\ UNCHANGED <<podSummaries, command>>

NextSummary ==
    \/ capacity.status = "none" /\ \E node \in SummaryNodeChoices : AddNode(node)
    \/ capacity.status = "none" /\ \E pod \in SummaryPodChoices : AddPod(pod)
    \/ \E thresholds \in ThresholdChoices, failure \in {"none", "listing nodes", "listing pods"},
          order \in MapIterationOrders(NamespacesOf(pods)) :
            CalculatePressureWithThresholds(thresholds, failure, order)
    \/ \E failure \in {"none", "listing nodes", "listing pods"} : AnalyzeSummary(failure)

SpecSummary == Init /\ [][NextSummary]_vars

\* C29: for one snapshot the pressure calculation counts the requests of the
\* same containers as the capacity summary, init containers included: where
\* the cluster has allocatable CPU (memory), the cluster-wide utilisation of
\* the pressure result is the summary's total CPU (memory) requests over the
\* summary's total allocatable, times 100.
C29_PressureCountsWhatTheSummaryCounts ==
    (pressure.status = "ok" /\ capacity.status = "ok") =>
        /\ capacity.summary.TotalCPUAllocatable > 0 =>
              PercentIs(pressure.CPUUtilization, capacity.summary.TotalCPURequests,
                        capacity.summary.TotalCPUAllocatable)
        /\ capacity.summary.TotalMemAllocatable > 0 =>
              PercentIs(pressure.MemUtilization, capacity.summary.TotalMemRequests,
                        capacity.summary.TotalMemAllocatable)

(***************************************************************************)
(* The pressure analysis of a cluster without allocatable resources.       *)
(***************************************************************************)
\* nodes without allocatable CPU
ZeroAllocatableNodeChoices ==
    {n \in NodeChoices : QuantityOf(n.Allocatable, "cpu") = 0}

\* pods of one container that requests 100 milli-CPU and 2 bytes, or 1
\* milli-CPU
ZeroAllocatablePodChoices ==
    { [Namespace |-> ns, Name |-> 1, NodeName |-> n, InitContainers |-> <<>>,
       Containers |-> <<Container(1, requests, NoResources)>>] :
        ns \in Namespaces, n \in {0} \cup NodeNames,
        requests \in {CPUAndMemory(100, 2), CPUOnly(1)} }

NextZeroAllocatable ==
    \/ \E node \in ZeroAllocatableNodeChoices : AddNode(node)
    \/ \E pod \in ZeroAllocatablePodChoices : AddPod(pod)
    \/ \E thresholds \in ThresholdChoices, failure \in {"none", "listing nodes", "listing pods"},
          order \in MapIterationOrders(NamespacesOf(pods)) :
            CalculatePressureWithThresholds(thresholds, failure, order)

SpecZeroAllocatable == Init /\ [][NextZeroAllocatable]_vars

\* C30: when the allocatable CPU (memory) summed over the nodes is zero,
\* every namespace is reported with CPU (memory) percentage 0 and without a
\* CPU (memory) status string.
C30_ZeroAllocatableGivesZeroPercent ==
    pressure.status = "ok" =>
        \A i \in 1..Len(pressure.NamespacePressures) :
            LET np == pressure.NamespacePressures[i]
            IN  /\ SumOverNodes(1..Len(nodes), "cpu") = 0 =>
                      np.CPUPercent.n = 0 /\ np.CPUStatus = NoStatus
                /\ SumOverNodes(1..Len(nodes), "memory") = 0 =>
                      np.MemPercent.n = 0 /\ np.MemStatus = NoStatus

====
